---- MODULE Spec2Model ----
(***************************************************************************)
(* A model of config/validate_requirements.py: the validator of            *)
(* characters.json against houses.json.                                    *)
(*                                                                         *)
(* Representation.                                                         *)
(*   - A Python str is a sequence of code points (naturals), so that       *)
(*     string comparison, strip(), casefold() and formatting are computed  *)
(*     as Python computes them.  T[s] is the code-point sequence of the    *)
(*     literal s of the source.                                            *)
(*   - A JSON value is a record [t |-> tag, v |-> payload], tag one of     *)
(*     "null" "bool" "int" "float" "str" "list" "dict" (None is "null").   *)
(*     A dict's payload is a function from keys to JSON values; a list's   *)
(*     payload is a sequence of JSON values.                               *)
(*   - A Python float is a record [i |-> whole, e |-> tiny]: the value     *)
(*     i + e * 5e-10, with |e| small.  EPS = 1e-9 is 2 tiny units.         *)
(*   - A Python dict keyed by int whose iteration order matters            *)
(*     (houses_by_number, chars_by_id, ...) is a record                    *)
(*     [keys |-> sequence of keys in insertion order, at |-> function].    *)
(***************************************************************************)
EXTENDS Integers, Sequences, FiniteSets, TLC

VARIABLES
    char_file,            \* the file at args.characters
    house_file,           \* the file at args.houses
    pc,                   \* position in main()
    all_issues,           \* main.all_issues
    char_raw,             \* main.char_raw
    house_raw,            \* main.house_raw
    characters,           \* main.characters
    houses,               \* main.houses
    houses_by_number,     \* main.houses_by_number
    chars_by_id,          \* main.chars_by_id
    rel,                  \* main.(spouse_of, parents_of_child, children_of_parent)
    stdout,               \* the lines printed so far
    raised,               \* the exception that left main(), "" while none has
    exit_status           \* <<status>> once the process has exited, <<>> before

vars == <<char_file, house_file, pc, all_issues, char_raw, house_raw, characters,
          houses, houses_by_number, chars_by_id, rel, stdout, raised, exit_status>>

-----------------------------------------------------------------------------
(* Python values *)

None == [t |-> "null", v |-> 0]
JBool(b) == [t |-> "bool", v |-> b]
JInt(n) == [t |-> "int", v |-> n]
JFloat(whole, tiny) == [t |-> "float", v |-> [i |-> whole, e |-> tiny]]
JStr(s) == [t |-> "str", v |-> s]
JList(s) == [t |-> "list", v |-> s]
JDict(f) == [t |-> "dict", v |-> f]

isinstance(x, tag) == x.t = tag

\* dict.get(k) of a JSON object x (None when the key is absent)
Get(x, k) == IF k \in DOMAIN x.v THEN x.v[k] ELSE None

is_int(x) == isinstance(x, "int")

is_number(x) == isinstance(x, "int") \/ isinstance(x, "float")

\* float(x) of a number
float(x) == IF isinstance(x, "int") THEN [i |-> x.v, e |-> 0] ELSE x.v

FloatOf(n) == [i |-> n, e |-> 0]
FAdd(a, b) == [i |-> a.i + b.i, e |-> a.e + b.e]
FSub(a, b) == [i |-> a.i - b.i, e |-> a.e - b.e]
FLt(a, b) == a.i < b.i \/ (a.i = b.i /\ a.e < b.e)
FLe(a, b) == a.i < b.i \/ (a.i = b.i /\ a.e <= b.e)
FAbs(a) == IF FLt(a, FloatOf(0)) THEN [i |-> 0 - a.i, e |-> 0 - a.e] ELSE a

\* 1e-9 in tiny units of 5e-10
EPS == 2
EPS_f == [i |-> 0, e |-> EPS]

approx_equal(a, b) == FLe(FAbs(FSub(a, b)), EPS_f)

-----------------------------------------------------------------------------
(* Python str: sequences of code points *)

\* the printable ASCII characters from code point 32 on; the place of the grave
\* accent (96), which no text of the program holds, is filled with a space
Alphabet ==
    " !\"#$%&'()*+,-./0123456789:;<=>?@ABCDEFGHIJKLMNOPQRSTUVWXYZ[\\]^_ abcdefghijklmnopqrstuvwxyz{|}~"

\* ord(c) of a one-character string
ord ==
    [c \in {SubSeq(Alphabet, i, i) : i \in 1..Len(Alphabet)} \cup {"\n", "\t"} |->
        IF c = "\n" THEN 10
        ELSE IF c = "\t" THEN 9
        ELSE 31 + CHOOSE i \in 1..Len(Alphabet) : SubSeq(Alphabet, i, i) = c]

\* the code points of a string literal of the source
T[s \in STRING] == [k \in 1..Len(s) |-> ord[SubSeq(s, k, k)]]

RECURSIVE Digits(_)
Digits(n) == IF n < 10 THEN <<48 + n>> ELSE Digits(n \div 10) \o <<48 + (n % 10)>>

\* str(n) of an int
str_int(n) == IF n < 0 THEN T["-"] \o Digits(0 - n) ELSE Digits(n)

RECURSIVE ZeroPad(_, _)
ZeroPad(s, width) == IF Len(s) >= width THEN s ELSE ZeroPad(T["0"] \o s, width)

RECURSIVE StripZeros(_)
StripZeros(s) ==
    IF Len(s) > 1 /\ s[Len(s)] = 48 THEN StripZeros(SubSeq(s, 1, Len(s) - 1)) ELSE s

\* repr(f) of a float, for f.e >= 0 and (f.i >= 0 or f.e = 0): the decimal
\* expansion of i + e * 5e-10, ten fractional digits at most, and the exponent
\* form Python uses below 1e-4.  (Python prints the nearest double: after an
\* addition its last digits can differ from the exact sum's.)
str_float(f) ==
    IF f.i < 0
    THEN T["-"] \o Digits(0 - f.i) \o T["."] \o T["0"]
    ELSE IF f.i = 0 /\ f.e > 0
    THEN LET all == Digits(f.e * 5)
             d == StripZeros(all)
             exp == 10 - (Len(all) - 1)
         IN  <<d[1]>> \o (IF Len(d) > 1 THEN T["."] \o Tail(d) ELSE <<>>)
             \o T["e-"] \o ZeroPad(Digits(exp), 2)
    ELSE Digits(f.i) \o T["."] \o StripZeros(ZeroPad(Digits(f.e * 5), 10))

\* the concatenation of ss[lo..hi], a sequence of str
RECURSIVE ConcatRange(_, _, _)
ConcatRange(ss, lo, hi) ==
    IF lo > hi THEN <<>>
    ELSE IF lo = hi THEN ss[lo]
    ELSE LET mid == (lo + hi) \div 2
         IN  ConcatRange(ss, lo, mid) \o ConcatRange(ss, mid + 1, hi)

\* sep.join(items)
Join(sep, items) ==
    ConcatRange([k \in 1..(2 * Len(items) - 1) |->
                    IF k % 2 = 1 THEN items[(k + 1) \div 2] ELSE sep],
                1, 2 * Len(items) - 1)

\* repr(s) of a str: quoted with ', or with " when it holds a ' and no ";
\* backslash, the quote, newline, tab and return are escaped (the texts of the
\* model hold no other control character)
repr_str(s) ==
    LET chars == {s[k] : k \in 1..Len(s)}
        quote == IF 39 \in chars /\ 34 \notin chars THEN 34 ELSE 39
        esc(c) == CASE c = 92 -> <<92, 92>>
                    [] c = quote -> <<92, c>>
                    [] c = 10 -> <<92, 110>>
                    [] c = 9 -> <<92, 116>>
                    [] c = 13 -> <<92, 114>>
                    [] OTHER -> <<c>>
    IN  <<quote>> \o ConcatRange([k \in 1..Len(s) |-> esc(s[k])], 1, Len(s)) \o <<quote>>

RECURSIVE repr(_)
repr(x) ==
    CASE x.t = "null" -> T["None"]
      [] x.t = "bool" -> IF x.v THEN T["True"] ELSE T["False"]
      [] x.t = "int" -> str_int(x.v)
      [] x.t = "float" -> str_float(x.v)
      [] x.t = "str" -> repr_str(x.v)
      [] x.t = "list" ->
            T["["] \o Join(T[", "], [k \in 1..Len(x.v) |-> repr(x.v[k])]) \o T["]"]

\* str(x), as an f-string formats {x}
str(x) == IF x.t = "str" THEN x.v ELSE repr(x)

\* repr of a list of ints
repr_ints(s) == repr(JList([k \in 1..Len(s) |-> JInt(s[k])]))

Whitespace == {32, 9, 10, 11, 12, 13}

\* s.strip(): s from its first to its last character that is no whitespace
strip(s) ==
    LET solid == {k \in 1..Len(s) : s[k] \notin Whitespace}
    IN  IF solid = {} THEN <<>>
        ELSE SubSeq(s, CHOOSE k \in solid : \A j \in solid : k <= j,
                       CHOOSE k \in solid : \A j \in solid : j <= k)

\* str.casefold() on the letters of the model's alphabet
casefold(s) == [k \in 1..Len(s) |-> IF s[k] \in 65..90 THEN s[k] + 32 ELSE s[k]]

normalize_case(s) == casefold(strip(s))

\* a regex's $ matches at the end and before a final newline
BeforeDollar(s) == IF s # <<>> /\ s[Len(s)] = 10 THEN SubSeq(s, 1, Len(s) - 1) ELSE s

\* NAME_RE.match(s): ^[A-Za-z]+$
NAME_RE(s) ==
    LET core == BeforeDollar(s)
    IN  core # <<>> /\ \A k \in 1..Len(core) : core[k] \in (65..90) \cup (97..122)

\* RELIGION_RE.match(s): ^\S+$
RELIGION_RE(s) ==
    \/ (s # <<>> /\ \A k \in 1..Len(s) : s[k] \notin Whitespace)
    \/ LET core == BeforeDollar(s)
       IN  core # <<>> /\ \A k \in 1..Len(core) : core[k] \notin Whitespace

\* a < b for two str: the first differing code point decides, a proper prefix is less
str_lt(a, b) ==
    LET n == IF Len(a) < Len(b) THEN Len(a) ELSE Len(b)
        differ == {k \in 1..n : a[k] # b[k]}
    IN  IF differ = {} THEN Len(a) < Len(b)
        ELSE LET k == CHOOSE d \in differ : \A j \in differ : d <= j
             IN  a[k] < b[k]

\* isinstance(x, str) and x.strip()
NonBlankStr(x) == isinstance(x, "str") /\ strip(x.v) # <<>>

-----------------------------------------------------------------------------
(* Issue *)

Issue(level, requirement, message) ==
    [level |-> level, requirement |-> requirement, message |-> message]

ERROR(requirement, message) == Issue("ERROR", T[requirement], message)
WARN(requirement, message) == Issue("WARN", T[requirement], message)

-----------------------------------------------------------------------------
(* Reading the two files *)

DISALLOWED_QUOTE_CHARS == {8216, 8217, 8220, 8221, 8242, 8243, 180}

\* text.count("\n", 0, idx)
CountNewlines(text, idx) == Cardinality({j \in 0..(idx - 1) : text[j + 1] = 10})

\* text.rfind("\n", 0, idx)
RfindNewline(text, idx) ==
    LET at == {j \in 0..(idx - 1) : text[j + 1] = 10}
    IN  IF at = {} THEN 0 - 1 ELSE CHOOSE j \in at : \A k \in at : k <= j

\* (line, col) of the 0-based index idx, both 1-based
_line_col_from_index(text, idx) ==
    LET line == CountNewlines(text, idx) + 1
        last_nl == RfindNewline(text, idx)
        col == idx - (last_nl + 1) + 1
    IN  <<line, col>>

\* a variant of quote_hits that stops at the first disallowed character
quote_hits_first(raw_text) ==
    LET all == SelectSeq([k \in 1..Len(raw_text) |-> k - 1],
                         LAMBDA i : raw_text[i + 1] \in DISALLOWED_QUOTE_CHARS)
    IN  IF all = <<>> THEN <<>> ELSE <<all[1]>>

\* the indexes i of for i, ch in enumerate(raw_text) with ch in
\* DISALLOWED_QUOTE_CHARS, in the order of the loop
quote_hits(raw_text) ==
    SelectSeq([k \in 1..Len(raw_text) |-> k - 1],
              LAMBDA i : raw_text[i + 1] \in DISALLOWED_QUOTE_CHARS)

\* one issue for each index i, in text order, whose character is disallowed
scan_for_disallowed_quotes(path, raw_text) ==
    LET hits == quote_hits(raw_text)
    IN  [k \in 1..Len(hits) |->
            LET i == hits[k]
                ch == raw_text[i + 1]
                lc == _line_col_from_index(raw_text, i)
            IN  ERROR("1.4.2",
                      path \o T[": disallowed quote/apostrophe character "]
                      \o T["'"] \o <<ch>> \o T["'"]
                      \o T[" at line "] \o str_int(lc[1])
                      \o T[", col "] \o str_int(lc[2])
                      \o T[". "] \o T["Use ASCII ' and \" only."])]

\* A file is [path, status, error, text, json]: status is what read_text does
\* ("ok", or the exception it raises), error the text of that exception, text
\* the decoded characters, json what json.loads (the library's parser) makes of
\* that text: a JSON value or [t |-> "JSONDecodeError", v |-> [lineno, colno, msg]].
\*
\* load_utf8_text: [raised, raw, issues]; an exception other than the two the
\* function catches leaves it (raised = TRUE).
load_utf8_text(file) ==
    CASE file.status = "ok" ->
            [raised |-> FALSE, raw |-> JStr(file.text), issues |-> <<>>]
      [] file.status = "UnicodeDecodeError" ->
            [raised |-> FALSE, raw |-> None,
             issues |-> << ERROR("1.4.1",
                 file.path \o T[": file is not valid UTF-8 (UnicodeDecodeError: "]
                 \o file.error \o T[")."]) >>]
      [] file.status = "FileNotFoundError" ->
            [raised |-> FALSE, raw |-> None,
             issues |-> << ERROR("1.1/2.x", file.path \o T[": file not found."]) >>]
      [] OTHER ->
            [raised |-> TRUE, raw |-> None, issues |-> <<>>]

\* json.loads(raw_text), raw_text the text of file
json_loads(file, raw_text) == file.json

\* load_json: [value, issues]
load_json(file, raw_text) ==
    LET e == json_loads(file, raw_text)
    IN  IF e.t # "JSONDecodeError"
        THEN [value |-> e, issues |-> <<>>]
        ELSE [value |-> None,
              issues |-> << ERROR("1.2",
                  file.path \o T[": invalid JSON (line "] \o str_int(e.v.lineno)
                  \o T[", col "] \o str_int(e.v.colno) \o T["): "] \o e.v.msg) >>]

-----------------------------------------------------------------------------
(* House Validator *)

\* [issue] if cond else []
When(cond, issue) == IF cond THEN <<issue>> ELSE <<>>

KeyText(k) ==
    CASE k = "x" -> T["x"] [] k = "z" -> T["z"]
      [] k = "xsize" -> T["xsize"] [] k = "zsize" -> T["zsize"]

BoundsKeys == <<"x", "z", "xsize", "zsize">>

House(hn) == T["houses.json: house "] \o str_int(hn)

\* a variant of side_constraints that leaves xsize to the general size check
side_constraints_x_only(hn, x, xsize) ==
    IF hn % 2 = 0
    THEN When(~approx_equal(float(x), FloatOf(0)),
              ERROR("2.3.6.3.1", T["houses.json: even house "] \o str_int(hn)
                                 \o T[" must have bounds.x=0, got "]
                                 \o repr(x) \o T["."]))
    ELSE When(~approx_equal(float(x), FloatOf(40)),
              ERROR("2.3.6.3.2", T["houses.json: odd house "] \o str_int(hn)
                                 \o T[" must have bounds.x=40, got "]
                                 \o repr(x) \o T["."]))

\* Side constraints (even vs odd) of a house with numeric x and xsize
side_constraints(hn, x, xsize) ==
    LET x_f == float(x)
        xsize_f == float(xsize)
    IN  IF hn % 2 = 0
        THEN    When(~approx_equal(x_f, FloatOf(0)),
                     ERROR("2.3.6.3.1", T["houses.json: even house "] \o str_int(hn)
                                        \o T[" must have bounds.x=0, got "]
                                        \o repr(x) \o T["."]))
             \o When(~approx_equal(xsize_f, FloatOf(30)),
                     ERROR("2.3.6.3.1", T["houses.json: even house "] \o str_int(hn)
                                        \o T[" must have bounds.xsize=30, got "]
                                        \o repr(xsize) \o T["."]))
        ELSE    When(~approx_equal(x_f, FloatOf(40)),
                     ERROR("2.3.6.3.2", T["houses.json: odd house "] \o str_int(hn)
                                        \o T[" must have bounds.x=40, got "]
                                        \o repr(x) \o T["."]))
             \o When(~approx_equal(xsize_f, FloatOf(30)),
                     ERROR("2.3.6.3.2", T["houses.json: odd house "] \o str_int(hn)
                                        \o T[" must have bounds.xsize=30, got "]
                                        \o repr(xsize) \o T["."]))

_validate_bounds_for_house(hn, h) ==
    LET b == Get(h, "bounds") IN
    IF ~isinstance(b, "dict")
    THEN << ERROR("2.3.5.1", House(hn) \o T[" missing/invalid bounds object."]) >>
    ELSE
    LET missing_keys == SelectSeq(BoundsKeys, LAMBDA k : k \notin DOMAIN b.v) IN
    IF missing_keys # <<>>
    THEN << ERROR("2.3.5.2",
                House(hn) \o T[" bounds missing key(s): "]
                \o repr(JList([k \in 1..Len(missing_keys) |-> JStr(KeyText(missing_keys[k]))]))
                \o T["."]) >>
    ELSE
    LET x == Get(b, "x")
        z == Get(b, "z")
        xsize == Get(b, "xsize")
        zsize == Get(b, "zsize")
    IN
    IF ~is_number(x) \/ ~is_number(z) \/ ~is_number(xsize) \/ ~is_int(zsize)
    THEN << ERROR("2.3.5.2",
                House(hn)
                \o T[" bounds must have numeric x/z/xsize and integer zsize; got "]
                \o T["x="] \o repr(x) \o T[", z="] \o repr(z)
                \o T[", xsize="] \o repr(xsize) \o T[", zsize="] \o repr(zsize)
                \o T["."]) >>
    ELSE
    LET x_f == float(x)
        z_f == float(z)
        xsize_f == float(xsize)
        zsize_i == zsize.v
        lo == [i |-> 0, e |-> 0 - EPS]
    IN
    \* Domain constraints
       When(FLt(x_f, lo) \/ FLt([i |-> 70, e |-> EPS], x_f),
            ERROR("2.3.5.2.1", House(hn) \o T[" bounds.x="] \o str(x)
                               \o T[" out of range [0,70]."]))
    \o When(FLt(z_f, lo) \/ FLt([i |-> 200, e |-> EPS], z_f),
            ERROR("2.3.5.2.2", House(hn) \o T[" bounds.z="] \o str(z)
                               \o T[" out of range [0,200]."]))
    \* Size constraints
    \o When(~approx_equal(xsize_f, FloatOf(30)),
            ERROR("2.3.5.2.3", House(hn) \o T[" bounds.xsize must be 30, got "]
                               \o repr(xsize) \o T["."]))
    \o When(~(10 <= zsize_i /\ zsize_i <= 16),
            ERROR("2.3.5.2.3", House(hn)
                               \o T[" bounds.zsize must be integer in [10,16], got "]
                               \o repr(zsize) \o T["."]))
    \* Extents
    \o When(FLt([i |-> 70, e |-> EPS], FAdd(x_f, xsize_f)),
            ERROR("2.3.5.2.4", House(hn) \o T[" bounds.x + xsize = "]
                               \o str_float(FAdd(x_f, xsize_f)) \o T[" exceeds 70."]))
    \o When(FLt([i |-> 200, e |-> EPS], FAdd(z_f, FloatOf(zsize_i))),
            ERROR("2.3.5.2.5", House(hn) \o T[" bounds.z + zsize = "]
                               \o str_float(FAdd(z_f, FloatOf(zsize_i)))
                               \o T[" exceeds 200."]))
    \* Side constraints (even vs odd)
    \o side_constraints(hn, x, xsize)

\* A Python dict keyed by int, in insertion order
EmptyDict == [keys |-> <<>>, at |-> <<>>]
Has(d, k) == k \in DOMAIN d.at
Put(d, k, val) ==
    [keys |-> IF Has(d, k) THEN d.keys ELSE Append(d.keys, k), at |-> (k :> val) @@ d.at]
\* d.get(k, default)
GetOr(d, k, default) == IF Has(d, k) THEN d.at[k] ELSE default

\* the elements of a sequence
Range(s) == {s[k] : k \in 1..Len(s)}

even_expected == [k \in 1..15 |-> 2 * (k - 1)]
odd_expected == [k \in 1..15 |-> 2 * (k - 1) + 1]

\* a variant of side_step that keeps the running value after a mismatch
side_step_carry(hbn, side_hns, side_label, k, st) ==
    LET hn == side_hns[k]
        h == GetOr(hbn, hn, JDict(<<>>))
        b == Get(h, "bounds")
    IN
    IF ~isinstance(b, "dict") THEN st
    ELSE
    LET z == Get(b, "z")
        zsize == Get(b, "zsize")
    IN
    IF ~is_number(z) \/ ~is_int(zsize) THEN st
    ELSE
    LET z_f == float(z)
        zsize_i == zsize.v
    IN  [expected_z |-> FAdd(st.expected_z, FloatOf(zsize_i)),
         zsizes |-> Append(st.zsizes, zsize_i),
         issues |-> st.issues \o
            When(~approx_equal(z_f, st.expected_z),
                 ERROR("2.3.6.4.3",
                       side_label \o T[": house "] \o str_int(hn) \o T[" bounds.z="]
                       \o str_float(z_f) \o T[" but expected "]
                       \o str_float(st.expected_z) \o T[" (gap/overlap)."]))]


\* a variant of side_step that expects each house where the one before it ends,
\* whether or not that one was where it was expected
side_step_resync(hbn, side_hns, side_label, k, st) ==
    LET hn == side_hns[k]
        h == GetOr(hbn, hn, JDict(<<>>))
        b == Get(h, "bounds")
    IN
    IF ~isinstance(b, "dict") THEN st
    ELSE
    LET z == Get(b, "z")
        zsize == Get(b, "zsize")
    IN
    IF ~is_number(z) \/ ~is_int(zsize) THEN st
    ELSE
    LET z_f == float(z)
        zsize_i == zsize.v
        mismatch == ~approx_equal(z_f, st.expected_z)
        \* Contiguity: each house starts where previous ended
        issues1 == st.issues \o
            When(mismatch,
                 ERROR("2.3.6.4.3",
                       side_label \o T[": house "] \o str_int(hn) \o T[" bounds.z="]
                       \o str_float(z_f) \o T[" but expected "]
                       \o str_float(st.expected_z) \o T[" (gap/overlap)."]))
        \* reduce cascading noise
        expected1 == z_f
    IN  [expected_z |-> FAdd(expected1, FloatOf(zsize_i)),
         zsizes |-> Append(st.zsizes, zsize_i),
         issues |-> issues1]

\* one iteration of side_check's loop, at the k-th house of side_hns;
\* st is [expected_z, zsizes, issues]
side_step(hbn, side_hns, side_label, k, st) ==
    LET hn == side_hns[k]
        h == GetOr(hbn, hn, JDict(<<>>))
        b == Get(h, "bounds")
    IN
    IF ~isinstance(b, "dict") THEN st
    ELSE
    LET z == Get(b, "z")
        zsize == Get(b, "zsize")
    IN
    IF ~is_number(z) \/ ~is_int(zsize) THEN st
    ELSE
    LET z_f == float(z)
        zsize_i == zsize.v
        mismatch == ~approx_equal(z_f, st.expected_z)
        \* Contiguity: each house starts where previous ended
        issues1 == st.issues \o
            When(mismatch,
                 ERROR("2.3.6.4.3",
                       side_label \o T[": house "] \o str_int(hn) \o T[" bounds.z="]
                       \o str_float(z_f) \o T[" but expected "]
                       \o str_float(st.expected_z) \o T[" (gap/overlap)."]))
        \* reduce cascading noise
        expected1 == IF mismatch THEN z_f ELSE st.expected_z
    IN  [expected_z |-> FAdd(expected1, FloatOf(zsize_i)),
         zsizes |-> Append(st.zsizes, zsize_i),
         issues |-> issues1]

\* the state of side_check's loop after the iteration for hn, which made
\* after of the state st: visited lists the houses the loop has come to
walk_visit(hn, st, after) ==
    [expected_z |-> after.expected_z, zsizes |-> after.zsizes, issues |-> after.issues,
     visited |-> Append(st.visited, hn)]

RECURSIVE side_walk(_, _, _, _, _, _)
\* side_check's loop over the lo-th to the hi-th house of side_hns, from state st
side_walk(hbn, side_hns, side_label, lo, hi, st) ==
    IF lo > hi THEN st
    ELSE IF lo = hi
    THEN walk_visit(side_hns[lo], st, side_step(hbn, side_hns, side_label, lo, st))
    ELSE LET mid == (lo + hi) \div 2
         IN  CHOOSE r \in {side_walk(hbn, side_hns, side_label, mid + 1, hi, l) :
                           l \in {side_walk(hbn, side_hns, side_label, lo, mid, st)}} : TRUE

\* side_check's loop `for hn in side_hns`, from expected_z = 0.0
side_visits(hbn, side_hns, side_label) ==
    side_walk(hbn, side_hns, side_label, 1, Len(side_hns),
              [expected_z |-> FloatOf(0), zsizes |-> <<>>, issues |-> <<>>,
               visited |-> <<>>])

\* side_check: [zsizes, issues], issues being what it appends
side_check(hbn, side_hns, side_label) ==
    LET after_walk(st) ==
            [zsizes |-> st.zsizes,
             issues |-> st.issues \o
                \* Sum constraint
                When(~approx_equal(st.expected_z, FloatOf(200)),
                     ERROR("2.3.6.5",
                           side_label \o T[": z-lengths sum/end at "]
                           \o str_float(st.expected_z) \o T[", expected 200."]))]
    IN  after_walk(side_visits(hbn, side_hns, side_label))

\* a variant of side_detail that walks a side whether or not it is complete
side_detail_always(hbn, expected, side_label, side_name) ==
    LET after_check(r) ==
            r.issues \o
            When(r.zsizes # <<>> /\ Cardinality(Range(r.zsizes)) = 1,
                 WARN("3.4",
                      side_name \o T[": all house zsize values are identical ("]
                      \o str_int(r.zsizes[1])
                      \o T["). Requirement 3.4 suggests some variance."]))
    IN  after_check(side_check(hbn, expected, side_label))


\* one side of validate_street_geometry's detailed checks
side_detail(hbn, expected, side_label, side_name) ==
    IF \A k \in 1..Len(expected) : Has(hbn, expected[k])
    THEN LET after_check(r) ==
                 r.issues \o
                 When(r.zsizes # <<>> /\ Cardinality(Range(r.zsizes)) = 1,
                      WARN("3.4",
                           side_name \o T[": all house zsize values are identical ("]
                           \o str_int(r.zsizes[1])
                           \o T["). Requirement 3.4 suggests some variance."]))
         IN  after_check(side_check(hbn, expected, side_label))
    ELSE <<>>

validate_street_geometry(hbn) ==
    LET even_present == SelectSeq(even_expected, LAMBDA hn : Has(hbn, hn))
        odd_present == SelectSeq(odd_expected, LAMBDA hn : Has(hbn, hn))
        even_missing == SelectSeq(even_expected, LAMBDA hn : ~Has(hbn, hn))
        odd_missing == SelectSeq(odd_expected, LAMBDA hn : ~Has(hbn, hn))
    IN
       When(even_present # even_expected /\ even_missing # <<>>,
            ERROR("2.3.6.4.1", T["Even side missing houseNumber(s): "]
                               \o repr_ints(even_missing) \o T["."]))
    \o When(odd_present # odd_expected /\ odd_missing # <<>>,
            ERROR("2.3.6.4.2", T["Odd side missing houseNumber(s): "]
                               \o repr_ints(odd_missing) \o T["."]))
    \o side_detail(hbn, even_expected, T["Even side (2.3.6.4.1)"], T["Even side"])
    \o side_detail(hbn, odd_expected, T["Odd side (2.3.6.4.2)"], T["Odd side"])

\* x == n in Python, for a JSON value x and an int n (True == 1, 0.0 == 0)
PyEqInt(x, n) ==
    \/ (x.t = "int" /\ x.v = n)
    \/ (x.t = "float" /\ x.v = FloatOf(n))
    \/ (x.t = "bool" /\ ((x.v /\ n = 1) \/ (~x.v /\ n = 0)))

\* a variant of store_entry that keeps a houseNumber outside 0..29 out of the index
store_entry_in_range(by_number, hn, h) ==
    IF hn < 0 \/ hn > 29 THEN by_number ELSE Put(by_number, hn, h)

\* by_number[hn] = h
store_entry(by_number, hn, h) == Put(by_number, hn, h)

\* a variant of seen_before that takes every houseNumber for a new one
seen_never(seen_numbers, hn) == FALSE

\* hn in seen_numbers: an earlier entry has this houseNumber
seen_before(seen_numbers, hn) == hn \in seen_numbers

\* the checks of one entry of validate_houses's loop; st is [issues, by_number, seen_numbers]
house_entry(st, idx, h) ==
    IF ~isinstance(h, "dict")
    THEN [st EXCEPT !.issues = @ \o << ERROR("2.3",
              T["houses.json: entry index "] \o str_int(idx) \o T[" is not an object."]) >>]
    ELSE
    LET hn_any == Get(h, "houseNumber") IN
    IF ~is_int(hn_any)
    THEN [st EXCEPT !.issues = @ \o << ERROR("2.3.1",
              T["houses.json: entry index "] \o str_int(idx)
              \o T[" missing/invalid houseNumber."]) >>]
    ELSE
    LET hn == hn_any.v
        range_issue == When(hn < 0 \/ hn > 29,
            ERROR("2.3.1", T["houses.json: houseNumber "] \o str_int(hn)
                           \o T[" out of range 0..29."]))
    IN
    IF seen_before(st.seen_numbers, hn)
    THEN [st EXCEPT !.issues = @ \o range_issue \o << ERROR("2.3.1",
              T["houses.json: duplicate houseNumber "] \o str_int(hn) \o T["."]) >>]
    ELSE
    LET occupants == Get(h, "occupants") IN
    IF ~isinstance(occupants, "list") \/ occupants.v = <<>>
    THEN [st EXCEPT !.issues = @ \o range_issue \o << ERROR("2.3.3/2.3.4",
              House(hn) \o T[" missing/invalid occupants list."]) >>,
                    !.seen_numbers = @ \cup {hn}]
    ELSE
    LET occs == occupants.v
        count_issue == When(~(1 <= Len(occs) /\ Len(occs) <= 6),
            ERROR("2.3.4", House(hn) \o T[" occupants count "] \o str_int(Len(occs))
                           \o T[" not in [1, 6]."]))
        nonint == SelectSeq(occs, LAMBDA occ : ~is_int(occ))
        occ_issues == [k \in 1..Len(nonint) |->
            ERROR("2.3.3", House(hn) \o T[" has non-integer occupant id: "]
                           \o repr(nonint[k]) \o T["."])]
        surname == Get(h, "surname")
        special ==
            \* House 7 special
            IF hn = 7
            THEN    When("surname" \in DOMAIN h.v,
                         ERROR("2.3.2.1", T["houses.json: house 7 must not define 'surname'."]))
                 \o When(~(Len(occs) = 1 /\ PyEqInt(occs[1], 0)),
                         ERROR("2.4", T["houses.json: house 7 occupants must be [0], got "]
                                      \o str(occupants) \o T["."]))
            ELSE IF ~NonBlankStr(surname)
            THEN << ERROR("2.3.2", House(hn) \o T[" missing/invalid surname."]) >>
            ELSE When(~NAME_RE(strip(surname.v)),
                      WARN("2.3.2", House(hn) \o T[" surname "] \o repr(surname)
                                    \o T[" contains non A-Za-z characters."]))
    IN  [issues |-> st.issues \o range_issue \o count_issue \o occ_issues \o special
                    \o _validate_bounds_for_house(hn, h),
         by_number |-> store_entry(st.by_number, hn, h),
         seen_numbers |-> st.seen_numbers \cup {hn}]

RECURSIVE houses_loop(_, _, _, _)
\* validate_houses's loop over the lo-th to the hi-th entry, from state st
houses_loop(entries, lo, hi, st) ==
    IF lo > hi THEN st
    ELSE IF lo = hi THEN house_entry(st, lo - 1, entries[lo])
    ELSE LET mid == (lo + hi) \div 2
         IN  CHOOSE r \in {houses_loop(entries, mid + 1, hi, l) :
                           l \in {houses_loop(entries, lo, mid, st)}} : TRUE

\* the first occurrences of the elements of a sequence, in order
Distinct(s) ==
    LET firsts == SelectSeq([k \in 1..Len(s) |-> k],
                            LAMBDA k : \A j \in 1..(k - 1) : s[j] # s[k])
    IN  [k \in 1..Len(firsts) |-> s[firsts[k]]]

Count(s, x) == Cardinality({k \in 1..Len(s) : s[k] = x})

\* str(dup) of {s: c for s, c in Counter(surnames).items() if c > 1}
repr_counts(keys, surnames) ==
    T["{"] \o Join(T[", "], [k \in 1..Len(keys) |->
                 repr(JStr(keys[k])) \o T[": "] \o str_int(Count(surnames, keys[k]))])
    \o T["}"]

\* a variant of missing_numbers that stops at the first missing number
missing_first(seen_numbers) ==
    LET all == SelectSeq([n \in 1..30 |-> n - 1], LAMBDA n : n \notin seen_numbers)
    IN  IF all = <<>> THEN <<>> ELSE <<all[1]>>

\* [n for n in range(30) if n not in seen_numbers]
missing_numbers(seen_numbers) ==
    SelectSeq([n \in 1..30 |-> n - 1], LAMBDA n : n \notin seen_numbers)

\* validate_houses: [by_number, issues]
validate_houses(houses_any) ==
    IF ~isinstance(houses_any, "list")
    THEN [by_number |-> EmptyDict,
          issues |-> << ERROR("2.3", T["houses.json: expected a top-level JSON array."]) >>]
    ELSE
    LET entries == houses_any.v
        after_loop(st) ==
        LET by_number == st.by_number
        \* Ensure all 0..29 present
        missing == missing_numbers(st.seen_numbers)
        \* house surnames should be unique across houses except house 7
        named == SelectSeq(by_number.keys,
                     LAMBDA hn : hn # 7 /\ NonBlankStr(Get(by_number.at[hn], "surname")))
        surnames == [k \in 1..Len(named) |-> strip(Get(by_number.at[named[k]], "surname").v)]
        dup == SelectSeq(Distinct(surnames), LAMBDA sn : Count(surnames, sn) > 1)
    IN  [by_number |-> by_number,
         issues |-> st.issues
            \o When(missing # <<>>,
                    ERROR("2.3.1", T["houses.json: missing houseNumber(s): "]
                                   \o repr_ints(missing) \o T["."]))
            \o When(dup # <<>>,
                    ERROR("2.5", T["houses.json: duplicate house surnames detected: "]
                                 \o repr_counts(dup, surnames) \o T["."]))
            \o validate_street_geometry(by_number)]
    IN  after_loop(houses_loop(entries, 1, Len(entries),
            [issues |-> When(Len(entries) # 30,
                             ERROR("2.3", T["houses.json: expected 30 houses, found "]
                                          \o str_int(Len(entries)) \o T["."])),
             by_number |-> EmptyDict,
             seen_numbers |-> {}]))

-----------------------------------------------------------------------------
(* Character Validator *)

ACCENT_ENUM ==
    {T["Canadian"], T["SouthAsian"], T["Chinese"], T["African"], T["MiddleEastern"]}

\* x in S for a set S of str; Python raises TypeError when x is unhashable
Hashable(x) == x.t \notin {"list", "dict"}
InStrSet(x, S) == x.t = "str" /\ x.v \in S

\* the elements of a set of str, in ascending order
sorted_strs(S) ==
    [p \in 1..Cardinality(S) |->
        CHOOSE x \in S : Cardinality({y \in S : str_lt(y, x)}) = p - 1]

FamilyKeyText(k) ==
    CASE k = "spouse" -> T["spouse"] [] k = "children" -> T["children"]
      [] k = "siblings" -> T["siblings"] [] k = "parents" -> T["parents"]

NPC(cid) == T["NPC id="] \o str_int(cid)

\* isinstance(x, list) and len(x) == n and all(isinstance(e, str) and e.strip() for e in x)
StrList(x, n) ==
    /\ isinstance(x, "list")
    /\ Len(x.v) = n
    /\ \A k \in 1..Len(x.v) : NonBlankStr(x.v[k])

\* the socialMedia checks of one entry: [issues, handles_ci]
social_media(cid, sm, handles_ci) ==
    IF ~isinstance(sm, "dict")
    THEN [issues |-> << ERROR("2.2.12", NPC(cid) \o T[": missing/invalid socialMedia object."]) >>,
          handles_ci |-> handles_ci]
    ELSE
    LET handle == Get(sm, "handle")
        bio == Get(sm, "bio")
        followers == Get(sm, "followers")
        following == Get(sm, "following")
        hkey == normalize_case(handle.v)
        handle_issues ==
            IF ~NonBlankStr(handle)
            THEN << ERROR("2.2.12.1", NPC(cid) \o T[": socialMedia.handle missing/invalid."]) >>
            ELSE    When(64 \in Range(handle.v),
                         ERROR("2.2.12.1", NPC(cid)
                               \o T[": socialMedia.handle must not include '@': "]
                               \o repr(handle) \o T["."]))
                 \o When(hkey \in DOMAIN handles_ci,
                         ERROR("2.7", NPC(cid) \o T[": socialMedia.handle "] \o repr(handle)
                               \o T[" duplicates NPC id="] \o str_int(handles_ci[hkey])
                               \o T[" "] \o T["(case-insensitive)."]))
    IN  [issues |-> handle_issues
            \o When(~NonBlankStr(bio),
                    ERROR("2.2.12.2", NPC(cid) \o T[": socialMedia.bio missing/invalid."]))
            \o When(~is_int(followers) \/ followers.v < 0,
                    ERROR("2.2.12.3", NPC(cid) \o T[": socialMedia.followers must be int >=0."]))
            \o When(~is_int(following) \/ following.v < 0,
                    ERROR("2.2.12.4", NPC(cid) \o T[": socialMedia.following must be int >=0."])),
         handles_ci |-> IF NonBlankStr(handle) /\ hkey \notin DOMAIN handles_ci
                        THEN (hkey :> cid) @@ handles_ci ELSE handles_ci]

\* the family checks of one entry
family_issues(cid, fam) ==
    IF ~isinstance(fam, "dict")
    THEN << ERROR("2.2.8", NPC(cid) \o T[": missing/invalid family object."]) >>
    ELSE
    LET extra_keys == {FamilyKeyText(k) : k \in (DOMAIN fam.v) \ {"spouse", "children"}}
        extra_sorted == sorted_strs(extra_keys)
        spouse == Get(fam, "spouse")
        children == Get(fam, "children")
    IN
       When(extra_keys # {},
            ERROR("2.2.8.1", NPC(cid) \o T[": family has unsupported keys "]
                  \o repr(JList([k \in 1..Len(extra_sorted) |-> JStr(extra_sorted[k])]))
                  \o T[" (allowed: spouse, children)."]))
    \o When(~is_int(spouse),
            ERROR("2.2.8", NPC(cid) \o T[": family.spouse must be an int (or -1)."]))
    \o When(PyEqInt(spouse, cid),
            ERROR("2.2.8", NPC(cid) \o T[": family.spouse cannot be self."]))
    \o When(is_int(spouse) /\ spouse.v # 0 - 1 /\ spouse.v = 0,
            ERROR("2.4.1", NPC(cid) \o T[": family.spouse references player id=0."]))
    \o (IF ~isinstance(children, "list") \/ ~(\A k \in 1..Len(children.v) : is_int(children.v[k]))
        THEN << ERROR("2.2.8", NPC(cid) \o T[": family.children must be a list of integer ids."]) >>
        ELSE    When(JInt(0) \in Range(children.v),
                     ERROR("2.4.1", NPC(cid) \o T[": family.children references player id=0."]))
             \o When(JInt(cid) \in Range(children.v),
                     ERROR("2.2.8", NPC(cid) \o T[": family.children cannot contain self."])))

\* the checks of one entry of validate_characters's loop;
\* st is [issues, by_id, first_names_ci, handles_ci, raised]
character_entry(st, idx, c) ==
    IF st.raised THEN st
    ELSE IF ~isinstance(c, "dict")
    THEN [st EXCEPT !.issues = @ \o << ERROR("2.2",
              T["characters.json: entry index "] \o str_int(idx) \o T[" is not an object."]) >>]
    ELSE
    LET cid_any == Get(c, "id") IN
    IF ~is_int(cid_any)
    THEN [st EXCEPT !.issues = @ \o << ERROR("2.2.1",
              T["characters.json: entry index "] \o str_int(idx)
              \o T[" missing/invalid integer id."]) >>]
    ELSE
    LET cid == cid_any.v
        player_issue == When(cid = 0,
            ERROR("2.4.1", T["characters.json: player id=0 must NOT appear in characters.json."]))
    IN
    IF Has(st.by_id, cid)
    THEN [st EXCEPT !.issues = @ \o player_issue \o << ERROR("2.2.1",
              T["characters.json: duplicate NPC id="] \o str_int(cid) \o T["."]) >>]
    ELSE
    LET fn == Get(c, "firstName")
        ln == Get(c, "lastName")
        gender == Get(c, "gender")
        age == Get(c, "age")
        accent == Get(c, "accentLanguage")
        career == Get(c, "career")
        religion == Get(c, "religion")
        traits == Get(c, "personalityTraits")
        interests == Get(c, "interests")
        about == Get(c, "about")
        key == normalize_case(fn.v)
        fn_issues ==
            IF ~NonBlankStr(fn)
            THEN << ERROR("2.2.2", NPC(cid) \o T[": missing/invalid firstName."]) >>
            ELSE    When(~NAME_RE(strip(fn.v)),
                         ERROR("2.2.2", NPC(cid) \o T[": firstName "] \o repr(fn)
                               \o T[" has non A-Za-z characters."]))
                 \o When(key \in DOMAIN st.first_names_ci,
                         ERROR("2.6", NPC(cid) \o T[": firstName "] \o repr(fn)
                               \o T[" duplicates NPC id="] \o str_int(st.first_names_ci[key])
                               \o T[" (case-insensitive)."]))
        ln_issues ==
            IF ~NonBlankStr(ln)
            THEN << ERROR("2.2.2", NPC(cid) \o T[": missing/invalid lastName."]) >>
            ELSE When(~NAME_RE(strip(ln.v)),
                      ERROR("2.2.2", NPC(cid) \o T[": lastName "] \o repr(ln)
                            \o T[" has non A-Za-z characters."]))
        sm == social_media(cid, Get(c, "socialMedia"), st.handles_ci)
        issues ==
               player_issue \o fn_issues \o ln_issues
            \o When(~InStrSet(gender, {T["M"], T["F"]}),
                    ERROR("2.2.3", NPC(cid) \o T[": gender must be 'M' or 'F', got "]
                          \o repr(gender) \o T["."]))
            \o (IF ~is_int(age)
                THEN << ERROR("2.2.4", NPC(cid) \o T[": age must be an integer, got "]
                              \o repr(age) \o T["."]) >>
                ELSE When(age.v <= 5,
                          ERROR("2.2.4.2", NPC(cid) \o T[": age="] \o str_int(age.v)
                                \o T[" is not allowed (must be >= 6)."])))
            \o When(~InStrSet(accent, ACCENT_ENUM),
                    ERROR("2.2.5", NPC(cid) \o T[": accentLanguage must be one of "]
                          \o T["['African', 'Canadian', 'Chinese', 'MiddleEastern', 'SouthAsian']"]
                          \o T[", got "] \o repr(accent) \o T["."]))
            \o When(~NonBlankStr(career),
                    ERROR("2.2.6", NPC(cid) \o T[": missing/invalid career."]))
            \o When(~NonBlankStr(religion) \/ ~RELIGION_RE(strip(religion.v)),
                    ERROR("2.2.7", NPC(cid) \o T[": religion must be a single word, got "]
                          \o repr(religion) \o T["."]))
            \* Personality traits
            \o (IF ~StrList(traits, 3)
                THEN << ERROR("2.2.9", NPC(cid)
                              \o T[": personalityTraits must be a list of 3 strings."]) >>
                ELSE When(Cardinality({normalize_case(traits.v[k].v) : k \in 1..3}) # 3,
                          WARN("2.2.9", NPC(cid)
                               \o T[": personalityTraits contains duplicates: "] \o str(traits))))
            \* Interests
            \o (IF ~StrList(interests, 3)
                THEN << ERROR("2.2.10", NPC(cid)
                              \o T[": interests must be a list of 3 strings."]) >>
                ELSE When(Cardinality({normalize_case(interests.v[k].v) : k \in 1..3}) # 3,
                          WARN("2.2.10", NPC(cid)
                               \o T[": interests contains duplicates: "] \o str(interests))))
            \* About facts
            \o When(~StrList(about, 5),
                    ERROR("2.2.11", NPC(cid)
                          \o T[": about must be a list of exactly 5 non-empty strings."]))
            \o sm.issues
            \o family_issues(cid, Get(c, "family"))
    IN
    \* gender not in {"M", "F"} and accent not in ACCENT_ENUM hash the value
    IF ~Hashable(gender) \/ ~Hashable(accent) THEN [st EXCEPT !.raised = TRUE]
    ELSE [issues |-> st.issues \o issues,
          by_id |-> Put(st.by_id, cid, c),
          first_names_ci |-> IF NonBlankStr(fn) /\ key \notin DOMAIN st.first_names_ci
                             THEN (key :> cid) @@ st.first_names_ci
                             ELSE st.first_names_ci,
          handles_ci |-> sm.handles_ci,
          raised |-> FALSE]

RECURSIVE characters_loop(_, _, _, _)
\* validate_characters's loop over the lo-th to the hi-th entry, from state st
characters_loop(entries, lo, hi, st) ==
    IF lo > hi THEN st
    ELSE IF lo = hi THEN character_entry(st, lo - 1, entries[lo])
    ELSE LET mid == (lo + hi) \div 2
         IN  CHOOSE r \in {characters_loop(entries, mid + 1, hi, l) :
                           l \in {characters_loop(entries, lo, mid, st)}} : TRUE

\* validate_characters: [raised, by_id, issues]; raised when it ends in a TypeError
validate_characters(characters_any) ==
    IF ~isinstance(characters_any, "list")
    THEN [raised |-> FALSE, by_id |-> EmptyDict,
          issues |-> << ERROR("2.2", T["characters.json: expected a top-level JSON array."]) >>]
    ELSE
    LET entries == characters_any.v
        \* 70 to 80 NPCs plus player (player not included in NPC list)
        npc_count == Len(entries)
        after_loop(st) == [raised |-> st.raised, by_id |-> st.by_id, issues |-> st.issues]
    IN  after_loop(characters_loop(entries, 1, Len(entries),
            [issues |-> When(~(70 <= npc_count /\ npc_count <= 80),
                             ERROR("2.1/2.4.1",
                                   T["characters.json: expected 70..80 NPC entries, found "]
                                   \o str_int(npc_count) \o T["."])),
             by_id |-> EmptyDict,
             first_names_ci |-> <<>>,
             handles_ci |-> <<>>,
             raised |-> FALSE]))

-----------------------------------------------------------------------------
(* Relationship Index Builder *)

\* d.get(k, default) of a JSON object
GetDefault(x, k, default) == IF k \in DOMAIN x.v THEN x.v[k] ELSE default

\* c.get("family", {})
family_of(c) == GetDefault(c, "family", JDict(<<>>))

\* the elements of a set of ints in ascending order: sorted(S), and the order in
\* which CPython iterates a set of small non-negative ints
sorted_ints(S) ==
    [p \in 1..Cardinality(S) |-> CHOOSE x \in S : Cardinality({y \in S : y < x}) = p - 1]

\* the ints of c's family.children, in list order
int_children(c) ==
    LET children == Get(family_of(c), "children")
    IN  IF isinstance(children, "list")
        THEN LET ints == SelectSeq(children.v, LAMBDA ch : is_int(ch))
             IN  [k \in 1..Len(ints) |-> ints[k].v]
        ELSE <<>>

\* the first loop of build_relationship_indexes:
\* [spouse_of, children_of_parent, parents_of_child]
collect_links(chars) ==
    LET ids == chars.keys
        spouse(cid) == Get(family_of(chars.at[cid]), "spouse")
        married == SelectSeq(ids, LAMBDA cid : is_int(spouse(cid)) /\ spouse(cid).v # 0 - 1)
        parents == SelectSeq(ids, LAMBDA cid : int_children(chars.at[cid]) # <<>>)
        listed == ConcatRange([k \in 1..Len(parents) |-> int_children(chars.at[parents[k]])],
                              1, Len(parents))
        kids == Distinct(listed)
    IN  [spouse_of |->
            [keys |-> married, at |-> [cid \in Range(married) |-> spouse(cid).v]],
         children_of_parent |->
            [keys |-> parents,
             at |-> [cid \in Range(parents) |-> Range(int_children(chars.at[cid]))]],
         parents_of_child |->
            [keys |-> kids,
             at |-> [ch \in Range(kids) |->
                        {cid \in Range(parents) : ch \in Range(int_children(chars.at[cid]))}]]]

\* a variant of spouse_issues that takes any two known genders for a violation
spouse_issues_known(chars, a, b) ==
    IF ~Has(chars, b)
    THEN << ERROR("2.2.8", NPC(a) \o T[": spouse id="] \o str_int(b)
                  \o T[" does not exist in characters.json."]) >>
    ELSE LET a_gender == Get(chars.at[a], "gender")
             b_gender == Get(chars.at[b], "gender")
         IN  When(/\ InStrSet(a_gender, {T["M"], T["F"]})
                  /\ InStrSet(b_gender, {T["M"], T["F"]}),
                  ERROR("2.2.8.2", T["Marriage gender violation: NPC id="] \o str_int(a)
                        \o T[" gender="] \o str(a_gender) \o T[" married to NPC id="]
                        \o str_int(b) \o T[" gender="] \o str(b_gender) \o T["."]))

\* a variant of spouse_issues that takes any spouse b names for a
spouse_issues_any(chars, a, b) ==
    IF ~Has(chars, b)
    THEN << ERROR("2.2.8", NPC(a) \o T[": spouse id="] \o str_int(b)
                  \o T[" does not exist in characters.json."]) >>
    ELSE LET b_spouse == Get(family_of(chars.at[b]), "spouse")
         IN  When(~is_int(b_spouse),
                  ERROR("2.2.8", NPC(a) \o T[": spouse id="] \o str_int(b)
                        \o T[" is not symmetric (NPC id="] \o str_int(b)
                        \o T[" has family.spouse="] \o repr(b_spouse) \o T[")."]))

\* the issues of one spouse link a -> b
spouse_issues(chars, a, b) ==
    IF ~Has(chars, b)
    THEN << ERROR("2.2.8", NPC(a) \o T[": spouse id="] \o str_int(b)
                  \o T[" does not exist in characters.json."]) >>
    ELSE
    LET \* Symmetry
        b_spouse == Get(family_of(chars.at[b]), "spouse")
        \* Marriage must be between one man and one woman
        a_gender == Get(chars.at[a], "gender")
        b_gender == Get(chars.at[b], "gender")
        \* Both >= 18
        a_age == Get(chars.at[a], "age")
        b_age == Get(chars.at[b], "age")
    IN
       When(~(is_int(b_spouse) /\ b_spouse.v = a),
            ERROR("2.2.8", NPC(a) \o T[": spouse id="] \o str_int(b)
                  \o T[" is not symmetric (NPC id="] \o str_int(b)
                  \o T[" has family.spouse="] \o repr(b_spouse) \o T[")."]))
    \o When(/\ InStrSet(a_gender, {T["M"], T["F"]})
            /\ InStrSet(b_gender, {T["M"], T["F"]})
            /\ a_gender = b_gender,
            ERROR("2.2.8.2", T["Marriage gender violation: NPC id="] \o str_int(a)
                  \o T[" gender="] \o str(a_gender) \o T[" married to NPC id="]
                  \o str_int(b) \o T[" gender="] \o str(b_gender) \o T["."]))
    \o When(is_int(a_age) /\ a_age.v < 18,
            ERROR("2.2.8.4", NPC(a) \o T[": married but age="] \o str_int(a_age.v)
                  \o T[" (<18)."]))
    \o When(is_int(b_age) /\ b_age.v < 18,
            ERROR("2.2.8.4", NPC(b) \o T[": married but age="] \o str_int(b_age.v)
                  \o T[" (<18)."]))

\* a variant of parent_issues that asks for a gap of more than 18 years
parent_issues_strict(chars, p, kids) ==
    LET p_age == Get(GetOr(chars, p, JDict(<<>>)), "age")
        order == sorted_ints(kids)
        child(ch) ==
            IF ~Has(chars, ch)
            THEN << ERROR("2.2.8", NPC(p) \o T[": references non-existent child id="]
                          \o str_int(ch) \o T["."]) >>
            ELSE LET ch_age == Get(chars.at[ch], "age")
                 IN  When(is_int(p_age) /\ is_int(ch_age) /\ p_age.v - ch_age.v <= 18,
                          ERROR("2.2.8.6", T["Parent/child age gap violation: parent id="]
                                \o str_int(p) \o T[" age="] \o str_int(p_age.v)
                                \o T[", child id="] \o str_int(ch) \o T[" age="]
                                \o str_int(ch_age.v) \o T[" "]
                                \o T["(must be >= 18 years older)."]))
    IN  ConcatRange([k \in 1..Len(order) |-> child(order[k])], 1, Len(order))

\* the issues of one parent p with children kids
parent_issues(chars, p, kids) ==
    LET p_age == Get(GetOr(chars, p, JDict(<<>>)), "age")
        order == sorted_ints(kids)
        child(ch) ==
            IF ~Has(chars, ch)
            THEN << ERROR("2.2.8", NPC(p) \o T[": references non-existent child id="]
                          \o str_int(ch) \o T["."]) >>
            ELSE LET ch_age == Get(chars.at[ch], "age")
                 IN  When(is_int(p_age) /\ is_int(ch_age) /\ p_age.v - ch_age.v < 18,
                          ERROR("2.2.8.6", T["Parent/child age gap violation: parent id="]
                                \o str_int(p) \o T[" age="] \o str_int(p_age.v)
                                \o T[", child id="] \o str_int(ch) \o T[" age="]
                                \o str_int(ch_age.v) \o T[" "]
                                \o T["(must be >= 18 years older)."]))
    IN     When(is_int(p_age) /\ p_age.v < 18,
                ERROR("2.2.8.5", NPC(p) \o T[": has children but age="] \o str_int(p_age.v)
                      \o T[" (<18)."]))
        \o ConcatRange([k \in 1..Len(order) |-> child(order[k])], 1, Len(order))

\* the issues of one child ch with parents ps
child_issues(chars, ch, ps) ==
       When(Cardinality(ps) > 2,
            ERROR("2.2.8.1", T["Child id="] \o str_int(ch) \o T[": has "]
                  \o str_int(Cardinality(ps)) \o T[" parents listed: "]
                  \o repr_ints(sorted_ints(ps)) \o T[" (max 2)."]))
    \o (IF Cardinality(ps) = 2
        THEN LET p1 == sorted_ints(ps)[1]
                 p2 == sorted_ints(ps)[2]
                 g1 == Get(chars.at[p1], "gender")
                 g2 == Get(chars.at[p2], "gender")
                 \* Spouse symmetry check
                 p1_sp == Get(family_of(chars.at[p1]), "spouse")
                 p2_sp == Get(family_of(chars.at[p2]), "spouse")
             IN     When(g1 = g2 /\ InStrSet(g1, {T["M"], T["F"]}),
                         ERROR("2.2.8.2", T["Child id="] \o str_int(ch)
                               \o T[": two parents share same gender: parent "]
                               \o str_int(p1) \o T[" gender="] \o str(g1)
                               \o T[", parent "] \o str_int(p2) \o T[" gender="]
                               \o str(g2) \o T["."]))
                 \o When(~(/\ is_int(p1_sp) /\ p1_sp.v = p2
                           /\ is_int(p2_sp) /\ p2_sp.v = p1),
                         WARN("2.2.8.1", T["Child id="] \o str_int(ch)
                              \o T[": two parents "] \o str_int(p1) \o T[" and "]
                              \o str_int(p2) \o T[" are not mutually spouses "]
                              \o T["(p1.spouse="] \o repr(p1_sp) \o T[", p2.spouse="]
                              \o repr(p2_sp) \o T[")."]))
        ELSE <<>>)

\* build_relationship_indexes: [raised, spouse_of, parents_of_child,
\* children_of_parent, issues]; raised when fam.get ends in an AttributeError,
\* fam being a family value that is no object
build_relationship_indexes(chars) ==
    IF \E cid \in Range(chars.keys) : ~isinstance(family_of(chars.at[cid]), "dict")
    THEN [raised |-> TRUE, spouse_of |-> EmptyDict, parents_of_child |-> EmptyDict,
          children_of_parent |-> EmptyDict, issues |-> <<>>]
    ELSE
    LET after_collect(links) ==
    LET spouse_of == links.spouse_of
        children_of_parent == links.children_of_parent
        parents_of_child == links.parents_of_child
        \* Validate spouse constraints: no multiple spouses, symmetric, M/F, age>=18
        targets == Distinct([k \in 1..Len(spouse_of.keys) |-> spouse_of.at[spouse_of.keys[k]]])
        partners(b) == {a \in Range(spouse_of.keys) : spouse_of.at[a] = b}
        multiple == SelectSeq(targets, LAMBDA b : Cardinality(partners(b)) > 1)
    IN  [raised |-> FALSE,
         spouse_of |-> spouse_of,
         parents_of_child |-> parents_of_child,
         children_of_parent |-> children_of_parent,
         issues |->
               [k \in 1..Len(multiple) |->
                   ERROR("2.2.8.3", NPC(multiple[k])
                         \o T[": multiple spouses reference this NPC: "]
                         \o repr_ints(sorted_ints(partners(multiple[k]))) \o T["."])]
            \o ConcatRange([k \in 1..Len(spouse_of.keys) |->
                               spouse_issues(chars, spouse_of.keys[k],
                                             spouse_of.at[spouse_of.keys[k]])],
                           1, Len(spouse_of.keys))
            \* Validate children constraints
            \o ConcatRange([k \in 1..Len(children_of_parent.keys) |->
                               parent_issues(chars, children_of_parent.keys[k],
                                             children_of_parent.at[children_of_parent.keys[k]])],
                           1, Len(children_of_parent.keys))
            \* Validate child has at most 2 parents
            \o ConcatRange([k \in 1..Len(parents_of_child.keys) |->
                               child_issues(chars, parents_of_child.keys[k],
                                            parents_of_child.at[parents_of_child.keys[k]])],
                           1, Len(parents_of_child.keys))]
    IN  after_collect(collect_links(chars))

-----------------------------------------------------------------------------
(* Cross-File Consistency Validator *)

\* sorted(s) of a list of ints, duplicates kept
sorted_list(s) ==
    [p \in 1..Len(s) |->
        CHOOSE x \in Range(s) : /\ Cardinality({k \in 1..Len(s) : s[k] < x}) < p
                                /\ p <= Cardinality({k \in 1..Len(s) : s[k] <= x})]

\* [o for o in occs_any if is_int(o)], as ints
int_occupants(occs_any) ==
    IF isinstance(occs_any, "list")
    THEN LET ints == SelectSeq(occs_any.v, LAMBDA o : is_int(o))
         IN  [k \in 1..Len(ints) |-> ints[k].v]
    ELSE <<>>

\* every (house, int occupant) pair in the order the houses list them
occurrences(hbn) ==
    ConcatRange([k \in 1..Len(hbn.keys) |->
                    LET occs == int_occupants(Get(hbn.at[hbn.keys[k]], "occupants"))
                    IN  [j \in 1..Len(occs) |-> [hn |-> hbn.keys[k], occ |-> occs[j]]]],
                1, Len(hbn.keys))

\* a variant of build_house_index that keeps the last house listing an occupant
build_house_index_last(hbn) ==
    LET all == occurrences(hbn)
        occs == Distinct([k \in 1..Len(all) |-> all[k].occ])
    IN  [keys |-> occs,
         at |-> [occ \in Range(occs) |->
                    all[CHOOSE k \in 1..Len(all) :
                            /\ all[k].occ = occ
                            /\ \A j \in (k + 1)..Len(all) : all[j].occ # occ].hn]]

\* occupant_id -> houseNumber (first occurrence)
build_house_index(hbn) ==
    LET all == occurrences(hbn)
        occs == Distinct([k \in 1..Len(all) |-> all[k].occ])
    IN  [keys |-> occs,
         at |-> [occ \in Range(occs) |->
                    all[CHOOSE k \in 1..Len(all) :
                            /\ all[k].occ = occ
                            /\ \A j \in 1..(k - 1) : all[j].occ # occ].hn]]

\* occupant id -> the list of the houses that list it, one entry per listing
seen_occurrences(hbn) ==
    LET all == occurrences(hbn)
        occs == Distinct([k \in 1..Len(all) |-> all[k].occ])
    IN  [keys |-> occs,
         at |-> [occ \in Range(occs) |->
                    LET mine == SelectSeq(all, LAMBDA e : e.occ = occ)
                    IN  [k \in 1..Len(mine) |-> mine[k].hn]]]

\* Build relationships edges (spouse, parent-child, siblings derived from shared parents)
related_edges(r, occupants) ==
    LET occ_set == Range(occupants)
        spouse(a, b) == Has(r.spouse_of, a) /\ r.spouse_of.at[a] = b
        child(p, ch) == ch \in GetOr(r.children_of_parent, p, {})
        parents_map(o) == GetOr(r.parents_of_child, o, {})
        sibling(a, b) ==
            \E i \in 1..Len(occupants) : \E j \in (i + 1)..Len(occupants) :
                /\ {occupants[i], occupants[j]} = {a, b}
                /\ parents_map(a) \cap parents_map(b) # {}
    IN  [a \in occ_set |->
            {b \in occ_set : \/ spouse(a, b) \/ spouse(b, a)
                             \/ child(a, b) \/ child(b, a)
                             \/ sibling(a, b)}]

\* a variant of after_get for a lookup d[k] in a defaultdict(set), which puts
\* an empty set under a key that is not there
after_get_inserting(d, k) == IF Has(d, k) THEN d ELSE Put(d, k, {})

\* the defaultdict d after d.get(k, set()): get looks the key up and puts
\* nothing in the dict
after_get(d, k) == d

\* the dict after d.get(o, ...) for each o of occupants from the k-th on
RECURSIVE after_gets(_, _, _)
after_gets(d, occupants, k) ==
    IF k > Len(occupants)
    THEN d
    ELSE after_gets(after_get(d, occupants[k]), occupants, k + 1)

\* spouse_of, children_of_parent and parents_of_child after the three loops of
\* related_edges(occupants): spouse_of is a plain dict, whose lookups cannot
\* add a key; the other two are defaultdicts
edges_reads(r, occupants) ==
    [spouse_of |-> r.spouse_of,
     children_of_parent |-> after_gets(r.children_of_parent, occupants, 1),
     parents_of_child |-> after_gets(r.parents_of_child, occupants, 1)]


\* the most iterations of a search loop a run is followed for
MaxPops == 16

\* a variant of already_seen that takes every node taken off the queue for a new one
already_seen_never(seen, u) == FALSE

\* if u in seen: continue
already_seen(seen, u) == u \in seen

\* the loop `while dq:` of the three searches, from the queue dq and the set
\* seen, for at most fuel iterations: u = dq.popleft(); a node that is in seen
\* is passed over; another is added to seen (and to visits, the nodes in the
\* order they were added); the search for an adult breaks at a node of
\* targets; otherwise the neighbours of u that are not in seen are appended.
\* done is whether the loop has ended, pops the iterations it took.
RECURSIVE search_loop(_, _, _, _, _, _, _)
search_loop(graph, targets, dq, seen, visits, pops, fuel) ==
    IF dq = <<>>
    THEN [done |-> TRUE, found |-> FALSE, seen |-> seen, visits |-> visits, pops |-> pops]
    ELSE IF fuel = 0
    THEN [done |-> FALSE, found |-> FALSE, seen |-> seen, visits |-> visits, pops |-> pops]
    ELSE
    LET u == Head(dq) IN
    IF already_seen(seen, u)
    THEN search_loop(graph, targets, Tail(dq), seen, visits, pops + 1, fuel - 1)
    ELSE IF u \in targets
    THEN [done |-> TRUE, found |-> TRUE, seen |-> seen \cup {u},
          visits |-> Append(visits, u), pops |-> pops + 1]
    ELSE
    LET next == SelectSeq(sorted_ints(IF u \in DOMAIN graph THEN graph[u] ELSE {}),
                          LAMBDA v : v \notin seen \cup {u})
    IN  search_loop(graph, targets, Tail(dq) \o next, seen \cup {u},
                    Append(visits, u), pops + 1, fuel - 1)

\* seen = set(); dq = deque([start]); while dq: ...
search(graph, start, targets) ==
    search_loop(graph, targets, <<start>>, {}, <<>>, 0, MaxPops)

\* Helper for connectivity
is_connected(graph, nodes) ==
    IF nodes = <<>>
    THEN TRUE
    ELSE Cardinality(search(graph, nodes[1], {}).seen) = Len(nodes)

\* Provide components for easier debugging: the components of the graph, each
\* sorted, in the order of their first unseen node
RECURSIVE components(_, _)
components(graph, unseen) ==
    IF unseen = {}
    THEN <<>>
    ELSE LET start == sorted_ints(unseen)[1]
             comp == search(graph, start, {}).seen
         IN  <<sorted_ints(comp)>> \o components(graph, unseen \ comp)

repr_components(comps) ==
    repr(JList([k \in 1..Len(comps) |->
                   JList([j \in 1..Len(comps[k]) |-> JInt(comps[k][j])])]))

\* a variant of player_rule that lets the player's record pass
player_rule_silent(chars) == <<>>

\* Player rules: the re-asserted check that id 0 is not in characters.json
player_rule(chars) ==
    When(Has(chars, 0),
         ERROR("2.4.1", T["Player id=0 must not be present in characters.json."]))

\* a variant of occupancy_issues that counts the listings of a character
\* instead of the houses that list it
occupancy_issues_by_listing(chars, hbn) ==
    LET after_scan(seen) ==
    LET occupant(occ) ==
            LET hns == seen.at[occ]
            IN  IF occ = 0
                THEN <<>>
                ELSE    When(~Has(chars, occ),
                             ERROR("2.3.3/2.8", T["houses.json: occupant id="] \o str_int(occ)
                                   \o T[" appears in house(s) "] \o repr_ints(sorted_list(hns))
                                   \o T[" but is missing in characters.json."]))
                     \o When(Len(hns) # 1,
                             ERROR("2.8", NPC(occ) \o T[" appears in multiple houses: "]
                                   \o repr_ints(sorted_ints(Range(hns)))
                                   \o T[" (must be exactly one)."]))
        character(cid) ==
            IF cid = 0
            THEN <<>>
            ELSE IF ~Has(seen, cid)
            THEN << ERROR("2.8", NPC(cid)
                          \o T[" does not appear in any house occupants list."]) >>
            ELSE LET hns == Range(seen.at[cid])
                 IN  When(Len(seen.at[cid]) # 1,
                          ERROR("2.8", NPC(cid) \o T[" appears in multiple houses "]
                                \o repr_ints(sorted_ints(hns)) \o T[" (must be 1)."]))
    IN     \* Player rules
           player_rule(chars)
           \* Occupant ids must exist (except player 0)
        \o ConcatRange([k \in 1..Len(seen.keys) |-> occupant(seen.keys[k])],
                       1, Len(seen.keys))
           \* Every NPC must appear in exactly one house
        \o ConcatRange([k \in 1..Len(chars.keys) |-> character(chars.keys[k])],
                       1, Len(chars.keys))
    IN  after_scan(seen_occurrences(hbn))

\* Req 2.8 + 2.4: each NPC must live in exactly one house; player only in house 7.
occupancy_issues(chars, hbn) ==
    LET after_scan(seen) ==
    LET occupant(occ) ==
            LET hns == seen.at[occ]
            IN  IF occ = 0
                THEN <<>>
                ELSE    When(~Has(chars, occ),
                             ERROR("2.3.3/2.8", T["houses.json: occupant id="] \o str_int(occ)
                                   \o T[" appears in house(s) "] \o repr_ints(sorted_list(hns))
                                   \o T[" but is missing in characters.json."]))
                     \o When(Cardinality(Range(hns)) # 1,
                             ERROR("2.8", NPC(occ) \o T[" appears in multiple houses: "]
                                   \o repr_ints(sorted_ints(Range(hns)))
                                   \o T[" (must be exactly one)."]))
        character(cid) ==
            IF cid = 0
            THEN <<>>
            ELSE IF ~Has(seen, cid)
            THEN << ERROR("2.8", NPC(cid)
                          \o T[" does not appear in any house occupants list."]) >>
            ELSE LET hns == Range(seen.at[cid])
                 IN  When(Cardinality(hns) # 1,
                          ERROR("2.8", NPC(cid) \o T[" appears in multiple houses "]
                                \o repr_ints(sorted_ints(hns)) \o T[" (must be 1)."]))
    IN     \* Player rules
           player_rule(chars)
           \* Occupant ids must exist (except player 0)
        \o ConcatRange([k \in 1..Len(seen.keys) |-> occupant(seen.keys[k])],
                       1, Len(seen.keys))
           \* Every NPC must appear in exactly one house
        \o ConcatRange([k \in 1..Len(chars.keys) |-> character(chars.keys[k])],
                       1, Len(chars.keys))
    IN  after_scan(seen_occurrences(hbn))

\* Req 2.5: no surname shared across different houses (based on where NPCs actually live)
surname_issues(chars, occ_to_house) ==
    LET housed == {cid \in Range(chars.keys) :
                       /\ cid # 0
                       /\ Has(occ_to_house, cid)
                       /\ NonBlankStr(Get(chars.at[cid], "lastName"))}
        surname(cid) == strip(Get(chars.at[cid], "lastName").v)
        surname_to_houses(ln) == {occ_to_house.at[cid] : cid \in {c \in housed : surname(c) = ln}}
        lns == sorted_strs({surname(cid) : cid \in housed})
        shared == SelectSeq(lns, LAMBDA ln : Cardinality(surname_to_houses(ln)) > 1)
    IN  [k \in 1..Len(shared) |->
            ERROR("2.5", T["Surname "] \o repr_str(shared[k])
                  \o T[" appears across multiple houses "]
                  \o repr_ints(sorted_ints(surname_to_houses(shared[k])))
                  \o T[" (must be unique per house)."])]

\* Surname match: all occupants' lastName must match house surname
occupant_surname_issues(chars, hn, house_surname, occ) ==
    IF occ = 0
    THEN << ERROR("2.4", T["house "] \o str_int(hn)
                  \o T[": player id=0 must not live in houses other than 7."]) >>
    ELSE IF ~Has(chars, occ)
    THEN <<>>
    ELSE LET ln == Get(chars.at[occ], "lastName")
         IN  When(NonBlankStr(ln) /\ strip(ln.v) # house_surname,
                  ERROR("2.3.2/2.9", T["house "] \o str_int(hn) \o T[": occupant id="]
                        \o str_int(occ) \o T[" lastName="] \o repr_str(strip(ln.v))
                        \o T[" != house surname "] \o repr_str(house_surname) \o T["."]))

\* Relatedness: all NPCs in same house must be related (connectivity under
\* spouse/parent-child/sibling)
relatedness_issues(chars, r, hn, occs) ==
    LET occs_no_player == SelectSeq(occs, LAMBDA o : o # 0 /\ Has(chars, o))
        check(graph) ==
            When(Len(occs_no_player) >= 2 /\ ~is_connected(graph, occs_no_player),
                 ERROR("2.9", T["house "] \o str_int(hn)
                       \o T[": occupants are not all related under allowed relationships. "]
                       \o T["Disconnected components: "]
                       \o repr_components(components(graph, Range(occs_no_player)))))
    IN  check(related_edges(r, occs_no_player))

\* Req 2.3.2 + 2.9: all occupants in a house share the house surname, and are related.
house_cross_issues(chars, r, hn, h) ==
    LET occs_any == GetDefault(h, "occupants", JList(<<>>))
        occs == int_occupants(occs_any)
        house_surname == Get(h, "surname")
    IN  IF ~isinstance(occs_any, "list")
        THEN <<>>
        ELSE IF hn = 7
        THEN \* already validated in validate_houses, but double-check
             When(occs # <<0>>,
                  ERROR("2.4", T["house 7 must be [0], got "] \o repr(occs_any)))
        ELSE IF ~NonBlankStr(house_surname)
        THEN \* already flagged, but avoid crash
             <<>>
        ELSE    ConcatRange([k \in 1..Len(occs) |->
                                occupant_surname_issues(chars, hn, strip(house_surname.v),
                                                        occs[k])],
                            1, Len(occs))
             \o relatedness_issues(chars, r, hn, occs)

\* Req 2.2.4.1: minors (<=17) must live with an adult family member (>=18) in their house.
minor_issues(chars, hbn, r, occ_to_house, cid) ==
    LET age == Get(chars.at[cid], "age")
        hn == occ_to_house.at[cid]
        occs == GetDefault(GetOr(hbn, hn, JDict(<<>>)), "occupants", JList(<<>>))
        occs_house == SelectSeq(int_occupants(occs), LAMBDA o : Has(chars, o))
        adult(o) == is_int(Get(chars.at[o], "age")) /\ Get(chars.at[o], "age").v >= 18
        \* Find reachable adults from minor
        has_adult_family ==
            /\ Len(occs_house) >= 2
            /\ cid \in Range(occs_house)
            /\ search(related_edges(r, occs_house), cid,
                      {u \in Range(occs_house) : adult(u) /\ u # cid}).found
        adults_in_house == SelectSeq(occs_house, adult)
    IN  IF cid = 0 \/ ~is_int(age) \/ age.v > 17 \/ ~Has(occ_to_house, cid)
           \/ ~isinstance(occs, "list")
        THEN <<>>
        ELSE When(~has_adult_family,
                  ERROR("2.2.4.1", T["Minor NPC id="] \o str_int(cid) \o T[" age="]
                        \o str_int(age.v) \o T[" in house "] \o str_int(hn)
                        \o T[" does not live with a related adult family member. "]
                        \o T["Adult occupants present: "]
                        \o repr_ints(sorted_list(adults_in_house))))

\* a variant of minor_family_issues that reports the children of a minor only
\* when the minor is not married
minor_family_issues_either(chars, cid) ==
    LET age == Get(chars.at[cid], "age")
        fam == family_of(chars.at[cid])
        spouse == Get(fam, "spouse")
        children == Get(fam, "children")
    IN  IF ~is_int(age) \/ age.v >= 18
        THEN <<>>
        ELSE IF is_int(spouse) /\ spouse.v # 0 - 1
        THEN << ERROR("2.2.8.4", NPC(cid) \o T[" age="] \o str_int(age.v)
                      \o T[" is married (spouse="] \o str_int(spouse.v) \o T[")."]) >>
        ELSE When(isinstance(children, "list") /\ Len(children.v) > 0,
                  ERROR("2.2.8.5", NPC(cid) \o T[" age="] \o str_int(age.v)
                        \o T[" has children listed: "] \o repr(children) \o T["."]))


\* Minors cannot be married or have children (implied by 2.2.8.4 and 2.2.8.5)
minor_family_issues(chars, cid) ==
    LET age == Get(chars.at[cid], "age")
        fam == family_of(chars.at[cid])
        spouse == Get(fam, "spouse")
        children == Get(fam, "children")
    IN  IF ~is_int(age) \/ age.v >= 18
        THEN <<>>
        ELSE    When(is_int(spouse) /\ spouse.v # 0 - 1,
                     ERROR("2.2.8.4", NPC(cid) \o T[" age="] \o str_int(age.v)
                           \o T[" is married (spouse="] \o str_int(spouse.v) \o T[")."]))
             \o When(isinstance(children, "list") /\ Len(children.v) > 0,
                     ERROR("2.2.8.5", NPC(cid) \o T[" age="] \o str_int(age.v)
                           \o T[" has children listed: "] \o repr(children) \o T["."]))

\* the calls of related_edges, in order: [occupants, minor], with
\* occs_no_player for each house of two or more (minor is 0), then occs_house
\* for each minor in a house of two or more
related_edges_calls(chars, hbn, occ_to_house) ==
    LET housed(o) == Has(chars, o)
        occs_any(hn) == GetDefault(GetOr(hbn, hn, JDict(<<>>)), "occupants", JList(<<>>))
        occs_no_player(hn) ==
            SelectSeq(int_occupants(occs_any(hn)), LAMBDA o : o # 0 /\ housed(o))
        occs_house(cid) == SelectSeq(int_occupants(occs_any(occ_to_house.at[cid])), housed)
        homes == SelectSeq(hbn.keys, LAMBDA hn :
                      /\ isinstance(occs_any(hn), "list")
                      /\ hn # 7
                      /\ NonBlankStr(Get(hbn.at[hn], "surname"))
                      /\ Len(occs_no_player(hn)) >= 2)
        minors == SelectSeq(chars.keys, LAMBDA cid :
                      /\ cid # 0
                      /\ is_int(Get(chars.at[cid], "age"))
                      /\ Get(chars.at[cid], "age").v <= 17
                      /\ Has(occ_to_house, cid)
                      /\ isinstance(occs_any(occ_to_house.at[cid]), "list")
                      /\ Len(occs_house(cid)) >= 2)
    IN  [k \in 1..Len(homes) |-> [occupants |-> occs_no_player(homes[k]), minor |-> 0]]
        \o [k \in 1..Len(minors) |-> [occupants |-> occs_house(minors[k]), minor |-> minors[k]]]

\* the three maps after the calls of related_edges from the k-th on
RECURSIVE reads_loop(_, _, _)
reads_loop(r, calls, k) ==
    IF k > Len(calls)
    THEN r
    ELSE reads_loop(edges_reads(r, calls[k].occupants), calls, k + 1)

\* spouse_of, parents_of_child and children_of_parent as
\* validate_cross_file_consistency leaves them: the function reads them in
\* related_edges and nowhere else
cross_file_reads(chars, hbn, r) ==
    reads_loop(r, related_edges_calls(chars, hbn, build_house_index(hbn)), 1)

\* the searches that follow a call of related_edges, each as search leaves it:
\* for a house is_connected from the first occupant and, when the house is
\* not connected, one search for each component; for a minor who is in the
\* graph, the search for an adult
searches_of(chars, r, call) ==
    LET graph == related_edges(r, call.occupants)
        adult(o) == is_int(Get(chars.at[o], "age")) /\ Get(chars.at[o], "age").v >= 18
        comps == components(graph, Range(call.occupants))
    IN  IF call.minor = 0
        THEN {search(graph, call.occupants[1], {})}
             \cup IF is_connected(graph, call.occupants)
                  THEN {}
                  ELSE {search(graph, comps[k][1], {}) : k \in 1..Len(comps)}
        ELSE IF call.minor \in Range(call.occupants)
        THEN {search(graph, call.minor,
                     {u \in Range(call.occupants) : adult(u) /\ u # call.minor})}
        ELSE {}

\* every search of validate_cross_file_consistency
cross_file_searches(chars, hbn, r) ==
    LET calls == related_edges_calls(chars, hbn, build_house_index(hbn))
    IN  UNION {searches_of(chars, r, calls[k]) : k \in 1..Len(calls)}

\* validate_cross_file_consistency returns: each of its searches ends
cross_file_ends(chars, hbn, r) ==
    \A s \in cross_file_searches(chars, hbn, r) : s.done

\* validate_cross_file_consistency: the issues; r carries spouse_of,
\* parents_of_child and children_of_parent
validate_cross_file_consistency(chars, hbn, r) ==
    LET checks(occ_to_house) ==
           occupancy_issues(chars, hbn)
        \o surname_issues(chars, occ_to_house)
        \o ConcatRange([k \in 1..Len(hbn.keys) |->
                           house_cross_issues(chars, r, hbn.keys[k], hbn.at[hbn.keys[k]])],
                       1, Len(hbn.keys))
        \o ConcatRange([k \in 1..Len(chars.keys) |->
                           minor_issues(chars, hbn, r, occ_to_house, chars.keys[k])],
                       1, Len(chars.keys))
        \o ConcatRange([k \in 1..Len(chars.keys) |-> minor_family_issues(chars, chars.keys[k])],
                       1, Len(chars.keys))
    IN  checks(build_house_index(hbn))

-----------------------------------------------------------------------------
(* main *)

\* print(f"{iss.level} [Req {iss.requirement}] {iss.message}")
issue_line(iss) ==
    (IF iss.level = "ERROR" THEN T["ERROR"] ELSE T["WARN"]) \o T[" [Req "] \o iss.requirement \o T["] "] \o iss.message

print_issues(issues) == [k \in 1..Len(issues) |-> issue_line(issues[k])]

\* main.sort_key
sort_key(i) ==
    LET level_rank == IF i.level = "ERROR" THEN 0 ELSE 1
    IN  <<level_rank, i.requirement, i.message>>

\* a < b for two sort keys, as Python compares tuples
key_lt(a, b) ==
    \/ a[1] < b[1]
    \/ a[1] = b[1] /\ str_lt(a[2], b[2])
    \/ a[1] = b[1] /\ a[2] = b[2] /\ str_lt(a[3], b[3])

\* a variant of sorted_issues that leaves the issues in the order collected
unsorted_issues(issues) == issues

\* sorted(issues, key=sort_key): a stable sort
sorted_issues(issues) ==
    LET key == [k \in 1..Len(issues) |-> sort_key(issues[k])]
        place(k) == Cardinality({j \in 1..Len(issues) : key_lt(key[j], key[k])})
                    + Cardinality({j \in 1..(k - 1) : key[j] = key[k]}) + 1
        at == [k \in 1..Len(issues) |-> place(k)]
    IN  [p \in 1..Len(issues) |-> issues[CHOOSE k \in 1..Len(issues) : at[k] = p]]

count_level(issues, level) == Cardinality({k \in 1..Len(issues) : issues[k].level = level})

\* the lines main prints after the issue lines
summary_lines(issues) ==
    << T[""],
       T["Summary:"],
       T["- Errors: "] \o str_int(count_level(issues, "ERROR")),
       T["- Warnings: "] \o str_int(count_level(issues, "WARN")),
       T[""],
       T["Not automatically validated (subjective / non-objective requirements):"],
       T["- 3.1 recurring themes across many NPCs"],
       T["- 3.2 cultural voice corresponds to accent language"],
       T["- 3.3 / 3.3.1 no aggression / no passive aggressiveness"] >>

\* return status: the issues collected so far are printed as they were
\* collected and the process exits
Abort(issues, status) ==
    /\ stdout' = stdout \o print_issues(issues)
    /\ exit_status' = <<status>>
    /\ pc' = "done"
    /\ raised' = raised

\* an exception leaves main(): the interpreter prints the traceback on stderr
\* and the process exits with status 1
Raise(exception) ==
    /\ raised' = exception
    /\ exit_status' = <<1>>
    /\ pc' = "done"
    /\ UNCHANGED stdout

Goto(label) ==
    /\ pc' = label
    /\ UNCHANGED <<stdout, raised, exit_status>>

\* char_raw, issues = load_utf8_text(char_path) ... return 2
LoadChars ==
    /\ pc = "load_chars"
    /\ \E r \in {load_utf8_text(char_file)} :
           IF r.raised
           THEN Raise(char_file.status) /\ UNCHANGED <<all_issues, char_raw>>
           ELSE /\ all_issues' = all_issues \o r.issues
                /\ IF r.raw = None
                   THEN Abort(all_issues', 2) /\ UNCHANGED char_raw
                   ELSE Goto("scan_chars") /\ char_raw' = r.raw.v
    /\ UNCHANGED <<char_file, house_file, house_raw, characters, houses,
                   houses_by_number, chars_by_id, rel>>

\* all_issues.extend(scan_for_disallowed_quotes(char_path, char_raw))
ScanChars ==
    /\ pc = "scan_chars"
    /\ all_issues' = all_issues \o scan_for_disallowed_quotes(char_file.path, char_raw)
    /\ Goto("load_houses")
    /\ UNCHANGED <<char_file, house_file, char_raw, house_raw, characters, houses,
                   houses_by_number, chars_by_id, rel>>

\* house_raw, issues = load_utf8_text(house_path) ... return 2
LoadHouses ==
    /\ pc = "load_houses"
    /\ \E r \in {load_utf8_text(house_file)} :
           IF r.raised
           THEN Raise(house_file.status) /\ UNCHANGED <<all_issues, house_raw>>
           ELSE /\ all_issues' = all_issues \o r.issues
                /\ IF r.raw = None
                   THEN Abort(all_issues', 2) /\ UNCHANGED house_raw
                   ELSE Goto("scan_houses") /\ house_raw' = r.raw.v
    /\ UNCHANGED <<char_file, house_file, char_raw, characters, houses,
                   houses_by_number, chars_by_id, rel>>

\* all_issues.extend(scan_for_disallowed_quotes(house_path, house_raw))
ScanHouses ==
    /\ pc = "scan_houses"
    /\ all_issues' = all_issues \o scan_for_disallowed_quotes(house_file.path, house_raw)
    /\ Goto("parse_chars")
    /\ UNCHANGED <<char_file, house_file, char_raw, house_raw, characters, houses,
                   houses_by_number, chars_by_id, rel>>

\* a variant of ParseChars that returns 2 as soon as characters.json fails to parse
ParseCharsAbortEarly ==
    /\ pc = "parse_chars"
    /\ \E r \in {load_json(char_file, char_raw)} :
           /\ characters' = r.value
           /\ all_issues' = all_issues \o r.issues
    /\ IF characters' = None THEN Abort(all_issues', 2) ELSE Goto("parse_houses")
    /\ UNCHANGED <<char_file, house_file, char_raw, house_raw, houses,
                   houses_by_number, chars_by_id, rel>>

\* characters, issues = load_json(char_path, char_raw)
ParseChars ==
    /\ pc = "parse_chars"
    /\ \E r \in {load_json(char_file, char_raw)} :
           /\ characters' = r.value
           /\ all_issues' = all_issues \o r.issues
    /\ Goto("parse_houses")
    /\ UNCHANGED <<char_file, house_file, char_raw, house_raw, houses,
                   houses_by_number, chars_by_id, rel>>

\* houses, issues = load_json(house_path, house_raw) ... return 2
ParseHouses ==
    /\ pc = "parse_houses"
    /\ \E r \in {load_json(house_file, house_raw)} :
           /\ houses' = r.value
           /\ all_issues' = all_issues \o r.issues
    /\ IF characters = None \/ houses' = None
       THEN Abort(all_issues', 2)
       ELSE Goto("validate_houses")
    /\ UNCHANGED <<char_file, house_file, char_raw, house_raw, characters,
                   houses_by_number, chars_by_id, rel>>

\* houses_by_number, issues = validate_houses(houses)
ValidateHouses ==
    /\ pc = "validate_houses"
    /\ \E r \in {validate_houses(houses)} :
           /\ houses_by_number' = r.by_number
           /\ all_issues' = all_issues \o r.issues
    /\ Goto("validate_characters")
    /\ UNCHANGED <<char_file, house_file, char_raw, house_raw, characters, houses,
                   chars_by_id, rel>>

\* chars_by_id, issues = validate_characters(characters)
ValidateCharacters ==
    /\ pc = "validate_characters"
    /\ \E r \in {validate_characters(characters)} :
           IF r.raised
           THEN Raise("TypeError") /\ UNCHANGED <<chars_by_id, all_issues>>
           ELSE /\ chars_by_id' = r.by_id
                /\ all_issues' = all_issues \o r.issues
                /\ Goto("relationships")
    /\ UNCHANGED <<char_file, house_file, char_raw, house_raw, characters, houses,
                   houses_by_number, rel>>

\* spouse_of, parents_of_child, children_of_parent, rel_issues =
\*     build_relationship_indexes(chars_by_id)
BuildRelationshipIndexes ==
    /\ pc = "relationships"
    /\ \E r \in {build_relationship_indexes(chars_by_id)} :
           IF r.raised
           THEN Raise("AttributeError") /\ UNCHANGED <<rel, all_issues>>
           ELSE /\ rel' = [spouse_of |-> r.spouse_of,
                           parents_of_child |-> r.parents_of_child,
                           children_of_parent |-> r.children_of_parent]
                /\ all_issues' = all_issues \o r.issues
                /\ Goto("cross_file")
    /\ UNCHANGED <<char_file, house_file, char_raw, house_raw, characters, houses,
                   houses_by_number, chars_by_id>>

\* cross_issues = validate_cross_file_consistency(...)
ValidateCrossFile ==
    /\ pc = "cross_file"
    /\ cross_file_ends(chars_by_id, houses_by_number, rel)
    /\ all_issues' = all_issues
                     \o validate_cross_file_consistency(chars_by_id, houses_by_number, rel)
    /\ rel' = cross_file_reads(chars_by_id, houses_by_number, rel)
    /\ Goto("report")
    /\ UNCHANGED <<char_file, house_file, char_raw, house_raw, characters, houses,
                   houses_by_number, chars_by_id>>

\* Print issues (sorted for stable output), the summary, and return
Report ==
    /\ pc = "report"
    /\ LET all_issues_sorted == sorted_issues(all_issues)
           err_count == count_level(all_issues, "ERROR")
       IN  /\ stdout' = stdout \o print_issues(all_issues_sorted) \o summary_lines(all_issues)
           /\ exit_status' = << IF err_count = 0 THEN 0 ELSE 1 >>
    /\ pc' = "done"
    /\ UNCHANGED <<char_file, house_file, all_issues, char_raw, house_raw, characters,
                   houses, houses_by_number, chars_by_id, rel, raised>>

Next ==
    \/ LoadChars
    \/ ScanChars
    \/ LoadHouses
    \/ ScanHouses
    \/ ParseChars
    \/ ParseHouses
    \/ ValidateHouses
    \/ ValidateCharacters
    \/ BuildRelationshipIndexes
    \/ ValidateCrossFile
    \/ Report

-----------------------------------------------------------------------------
(* Input files *)

\* the keys of the objects of the two files, in the order they are written
KeyOrder ==
    << "houseNumber", "id", "firstName", "lastName", "surname", "gender", "age",
       "accentLanguage", "career", "religion", "personalityTraits", "interests",
       "about", "socialMedia", "handle", "bio", "followers", "following", "family",
       "spouse", "children", "siblings", "parents", "occupants", "bounds",
       "x", "z", "xsize", "zsize" >>

\* a JSON string literal
dumps_str(s) ==
    LET esc(c) == CASE c = 34 -> T["\\\""]
                    [] c = 92 -> T["\\\\"]
                    [] c = 10 -> T["\\n"]
                    [] c = 9 -> T["\\t"]
                    [] OTHER -> <<c>>
    IN  T["\""] \o ConcatRange([k \in 1..Len(s) |-> esc(s[k])], 1, Len(s)) \o T["\""]

\* the JSON text of a value, on one line
RECURSIVE dumps(_)
dumps(x) ==
    CASE x.t = "null" -> T["null"]
      [] x.t = "bool" -> IF x.v THEN T["true"] ELSE T["false"]
      [] x.t = "int" -> str_int(x.v)
      [] x.t = "float" -> str_float(x.v)
      [] x.t = "str" -> dumps_str(x.v)
      [] x.t = "list" ->
            T["["] \o Join(T[", "], [k \in 1..Len(x.v) |-> dumps(x.v[k])]) \o T["]"]
      [] x.t = "dict" ->
            LET keys == SelectSeq(KeyOrder, LAMBDA k : k \in DOMAIN x.v)
            IN  T["{"]
                \o Join(T[", "], [k \in 1..Len(keys) |->
                                     dumps_str(T[keys[k]]) \o T[": "] \o dumps(x.v[keys[k]])])
                \o T["}"]

\* the text of a file holding the value: an array is written one entry a line
file_text(x) ==
    IF x.t = "list"
    THEN T["["] \o T["\n"]
         \o Join(T[","] \o T["\n"], [k \in 1..Len(x.v) |-> T["  "] \o dumps(x.v[k])])
         \o T["\n"] \o T["]"] \o T["\n"]
    ELSE dumps(x) \o T["\n"]

\* a readable file of valid JSON
JsonFile(path, x) ==
    [path |-> path, status |-> "ok", error |-> <<>>, text |-> file_text(x), json |-> x]

\* a readable file that json.loads rejects
BrokenFile(path) ==
    [path |-> path, status |-> "ok", error |-> <<>>, text |-> T["["] \o T["\n"],
     json |-> [t |-> "JSONDecodeError",
               v |-> [lineno |-> 2, colno |-> 1, msg |-> T["Expecting value"]]]]

\* a file that read_text fails on with the exception
UnreadableFile(path, exception) ==
    [path |-> path, status |-> exception,
     error |-> IF exception = "UnicodeDecodeError"
               THEN T["'utf-8' codec can't decode byte 0xff in position 0: invalid start byte"]
               ELSE <<>>,
     text |-> <<>>, json |-> None]

char_path == T["config/characters.json"]
house_path == T["config/houses.json"]

-----------------------------------------------------------------------------
(* A dataset that meets every requirement: 30 houses, 70 characters.  House  *)
(* 7 is the player's; each other house holds a married couple, the first 12  *)
(* of them with a child.                                                     *)

\* d with d[k] = val
With(d, k, val) ==
    JDict([x \in DOMAIN d.v \cup {k} |-> IF x = k THEN val ELSE d.v[x]])

\* d without the key k
Without(d, k) == JDict([x \in DOMAIN d.v \ {k} |-> d.v[x]])

IntList(s) == JList([k \in 1..Len(s) |-> JInt(s[k])])
StrListOf(s) == JList([k \in 1..Len(s) |-> JStr(s[k])])

letters(n) == <<97 + (n % 26), 97 + (n \div 26)>>

\* the houses other than 7, counted from 0
slot(n) == IF n < 7 THEN n ELSE n - 1

\* the house of character i
home(i) ==
    LET j == IF i <= 58 THEN (i - 1) \div 2 ELSE i - 59
    IN  IF j < 7 THEN j ELSE j + 1

is_child(i) == i > 58

base_occupants(n) ==
    IF n = 7
    THEN <<0>>
    ELSE <<2 * slot(n) + 1, 2 * slot(n) + 2>>
         \o (IF slot(n) < 12 THEN <<59 + slot(n)>> ELSE <<>>)

base_surname(n) == T["Fam"] \o letters(n)

\* the side of 15 houses: ten of depth 13, then five of depth 14
base_zsize(k) == IF k < 10 THEN 13 ELSE 14
base_z(k) == IF k < 10 THEN 13 * k ELSE 130 + 14 * (k - 10)

base_house(n) ==
    LET h == JDict(("houseNumber" :> JInt(n)) @@ ("occupants" :> IntList(base_occupants(n)))
                   @@ ("surname" :> JStr(base_surname(n)))
                   @@ ("bounds" :> JDict(("x" :> JInt(IF n % 2 = 0 THEN 0 ELSE 40))
                                         @@ ("z" :> JInt(base_z(n \div 2)))
                                         @@ ("xsize" :> JInt(30))
                                         @@ ("zsize" :> JInt(base_zsize(n \div 2))))))
    IN  IF n = 7 THEN Without(h, "surname") ELSE h

base_character(i) ==
    JDict(("id" :> JInt(i)) @@ ("firstName" :> JStr(T["N"] \o letters(i)))
          @@ ("lastName" :> JStr(base_surname(home(i))))
          @@ ("gender" :> JStr(IF i % 2 = 1 THEN T["M"] ELSE T["F"]))
          @@ ("age" :> JInt(IF is_child(i) THEN 10 ELSE 40))
          @@ ("accentLanguage" :> JStr(T["Canadian"]))
          @@ ("career" :> JStr(T["Baker"]))
          @@ ("religion" :> JStr(T["None"]))
          @@ ("personalityTraits" :> StrListOf(<<T["a"], T["b"], T["c"]>>))
          @@ ("interests" :> StrListOf(<<T["x"], T["y"], T["z"]>>))
          @@ ("about" :> StrListOf(<<T["1"], T["2"], T["3"], T["4"], T["5"]>>))
          @@ ("socialMedia" :> JDict(("handle" :> JStr(T["h"] \o str_int(i)))
                                     @@ ("bio" :> JStr(T["bio"]))
                                     @@ ("followers" :> JInt(1))
                                     @@ ("following" :> JInt(2))))
          @@ ("family" :> JDict(
                ("spouse" :> JInt(IF is_child(i) THEN 0 - 1
                                  ELSE IF i % 2 = 1 THEN i + 1 ELSE i - 1))
                @@ ("children" :> IntList(IF ~is_child(i) /\ slot(home(i)) < 12
                                          THEN <<59 + slot(home(i))>> ELSE <<>>)))))

base_houses == JList([k \in 1..30 |-> base_house(k - 1)])
base_characters == JList([k \in 1..70 |-> base_character(k)])

\* the array with entry number k (from 1) replaced
Patch(list, k, entry) == JList([j \in 1..Len(list.v) |-> IF j = k THEN entry ELSE list.v[j]])

-----------------------------------------------------------------------------
(* The runs of main() over readable, unreadable, broken and valid files *)

\* the most disallowed quote characters a file's text holds
MaxQuotes == 1

\* the exceptions read_text fails with
ReadErrors == {"UnicodeDecodeError", "FileNotFoundError", "PermissionError",
               "IsADirectoryError"}

\* s followed by q right single quotation marks
Quoted(s, q) == s \o [k \in 1..q |-> 8217]

\* characters.json: the valid roster, and the roster with its first character changed
first_character(key, val) == Patch(base_characters, 1, With(base_character(1), key, val))

CharacterRosters ==
    {base_characters, None, JList(<<>>)}
    \cup {first_character("about", StrListOf(<<Quoted(T["1"], q), T["2"], T["3"], T["4"],
                                               T["5"]>>)) : q \in 1..MaxQuotes}
    \cup {first_character("personalityTraits", StrListOf(<<T["a"], T["a"], T["b"]>>)),
          first_character("age", JInt(17)),
          first_character("family", None),
          first_character("gender", JList(<<>>))}

\* houses.json: the valid street, and the street with its first house changed
first_house(key, val) == Patch(base_houses, 1, With(base_house(0), key, val))

HouseLists ==
    {base_houses, None, JList(<<>>)}
    \cup {first_house("surname", JStr(Quoted(base_surname(0), q))) : q \in 1..MaxQuotes}

FilesAt(path, values) ==
    {JsonFile(path, x) : x \in values}
    \cup {BrokenFile(path)}
    \cup {UnreadableFile(path, e) : e \in ReadErrors}

\* the state main() starts in, given the two files
Start(cf, hf) ==
    /\ char_file = cf
    /\ house_file = hf
    /\ pc = "load_chars"
    /\ all_issues = <<>>
    /\ char_raw = <<>>
    /\ house_raw = <<>>
    /\ characters = None
    /\ houses = None
    /\ houses_by_number = EmptyDict
    /\ chars_by_id = EmptyDict
    /\ rel = [spouse_of |-> EmptyDict, parents_of_child |-> EmptyDict,
              children_of_parent |-> EmptyDict]
    /\ stdout = <<>>
    /\ raised = ""
    /\ exit_status = <<>>

Init ==
    \E cf \in FilesAt(char_path, CharacterRosters) :
        \E hf \in FilesAt(house_path, HouseLists) : Start(cf, hf)

Spec == Init /\ [][Next]_vars

-----------------------------------------------------------------------------
(* Properties of a run of main() *)

Exited == pc = "done"

\* read_text returned the text of the file
WasRead(file) == file.status = "ok"

\* the file was read and json.loads accepted its text
WasParsed(file) == WasRead(file) /\ file.json.t # "JSONDecodeError"

BothParsed == WasParsed(char_file) /\ WasParsed(house_file)

HasError == \E k \in 1..Len(all_issues) : all_issues[k].level = "ERROR"
HasWarning == \E k \in 1..Len(all_issues) : all_issues[k].level = "WARN"

\* C1: the exit status of a run is 0 exactly when both files were read and
\* parsed and no ERROR was collected, 1 exactly when both were read and parsed
\* and at least one ERROR was collected, and 2 exactly when either file could
\* not be read or parsed.
C1_ExitStatusContract ==
    Exited =>
        /\ exit_status = <<0>> <=> (BothParsed /\ ~HasError)
        /\ exit_status = <<1>> <=> (BothParsed /\ HasError)
        /\ exit_status = <<2>> <=> ~BothParsed

\* a run in which houses.json cannot be read ends with status 1
C1_UnreadableExitsOne ==
    /\ Exited
    /\ WasRead(char_file)
    /\ house_file.status = "PermissionError"
    /\ exit_status = <<1>>

\* the issues load_utf8_text and load_json report for the file
load_issues(file) == load_utf8_text(file).issues
parse_issues(file) == load_json(file, file.text).issues

\* s is a sequence ending with the sequence t
EndsWith(s, t) ==
    /\ Len(t) <= Len(s)
    /\ SubSeq(s, Len(s) - Len(t) + 1, Len(s)) = t

\* characters.json failed to load with an exception load_utf8_text reports
CharsFailedToLoad == char_file.status \in {"UnicodeDecodeError", "FileNotFoundError"}

\* characters.json was read and failed to parse
CharsFailedToParse == WasRead(char_file) /\ char_file.json.t = "JSONDecodeError"

\* houses.json went through load_utf8_text: its text or its issue is in the state
HousesLoadAttempted ==
    IF WasRead(house_file)
    THEN house_raw = house_file.text
    ELSE load_issues(house_file) # <<>> /\ EndsWith(all_issues, load_issues(house_file))

\* houses.json went through load_json: its value and its issues are in the state
HousesParseAttempted ==
    /\ houses = load_json(house_file, house_file.text).value
    /\ EndsWith(all_issues, parse_issues(house_file))

\* C2 as stated: at both abort points houses.json is still loaded or parsed
\* before the run exits with status 2
C2_BothFilesAttempted ==
    (Exited /\ exit_status = <<2>>) =>
        /\ CharsFailedToLoad => HousesLoadAttempted
        /\ (CharsFailedToParse /\ WasRead(house_file)) => HousesParseAttempted

\* C2: when characters.json is read but fails to parse, houses.json is still
\* parsed and its issues collected before the run exits with status 2; when
\* characters.json fails to load, the run exits with status 2 at once, with
\* houses.json neither loaded nor parsed and nothing collected from it.
C2_OnlyParseAttemptsBoth ==
    Exited =>
        /\ (CharsFailedToParse /\ WasRead(house_file)) =>
               exit_status = <<2>> /\ HousesParseAttempted
        /\ CharsFailedToLoad =>
               /\ exit_status = <<2>>
               /\ house_raw = <<>>
               /\ houses = None
               /\ all_issues = load_issues(char_file)

\* both files are read and both fail to parse: two issues, status 2
C2_BothBroken ==
    /\ Exited
    /\ CharsFailedToParse
    /\ WasRead(house_file) /\ house_file.json.t = "JSONDecodeError"
    /\ all_issues = parse_issues(char_file) \o parse_issues(house_file)
    /\ exit_status = <<2>>

\* what the state keeps of the issues grows at the end only
IsPrefix(s, t) == Len(s) <= Len(t) /\ SubSeq(t, 1, Len(s)) = s

\* C3: validators only ever append to the collected issues, and at every exit
\* of the process each collected issue has been printed exactly once.
C3_SinkPrintedOnExit ==
    /\ [][IsPrefix(all_issues, all_issues')]_vars
    /\ [](Exited =>
            \A k \in 1..Len(all_issues) :
                Count(stdout, issue_line(all_issues[k])) = Count(all_issues, all_issues[k]))

\* a run that ends on an exception after issues were collected prints none
C3_CrashDropsIssues ==
    /\ Exited
    /\ raised # ""
    /\ all_issues # <<>>
    /\ stdout = <<>>

\* the printed lines that report an issue, in the order printed
StartsWith(s, t) == Len(t) <= Len(s) /\ SubSeq(s, 1, Len(t)) = t
IsIssueLine(line) == StartsWith(line, T["ERROR [Req "]) \/ StartsWith(line, T["WARN [Req "])
IssueLines == SelectSeq(stdout, IsIssueLine)

\* the parts of a printed issue line: LEVEL [Req REQUIREMENT] MESSAGE
LineRank(line) == IF StartsWith(line, T["ERROR"]) THEN 0 ELSE 1
LineReqStart(line) == (IF LineRank(line) = 0 THEN Len(T["ERROR [Req "]) ELSE Len(T["WARN [Req "])) + 1
LineReqEnd(line) ==
    CHOOSE k \in LineReqStart(line)..Len(line) :
        /\ SubSeq(line, k, k + 1) = T["] "]
        /\ \A j \in LineReqStart(line)..(k - 1) : SubSeq(line, j, j + 1) # T["] "]
LineReq(line) == SubSeq(line, LineReqStart(line), LineReqEnd(line) - 1)
LineMsg(line) == SubSeq(line, LineReqEnd(line) + 2, Len(line))

\* line a may be printed before line b: ERROR before WARN, then the
\* requirement strings compared character by character, then the messages
LineLeq(a, b) ==
    \/ LineRank(a) < LineRank(b)
    \/ LineRank(a) = LineRank(b) /\ str_lt(LineReq(a), LineReq(b))
    \/ LineRank(a) = LineRank(b) /\ LineReq(a) = LineReq(b) /\ ~str_lt(LineMsg(b), LineMsg(a))

InPrintOrder(lines) == \A k \in 1..(Len(lines) - 1) : LineLeq(lines[k], lines[k + 1])

\* C4 as stated: whatever the exit path, the issue lines are printed sorted
C4_AlwaysSorted == Exited => InPrintOrder(IssueLines)

\* C4: when validation runs to completion (status 0 or 1) there is one printed
\* line per collected issue and the lines are sorted, ERROR before WARN, then
\* by requirement string, then by message; when the run aborts with status 2
\* the lines are printed in the order the issues were collected.
C4_SortedWhenCompleted ==
    (Exited /\ raised = "") =>
        IF exit_status = <<2>>
        THEN stdout = print_issues(all_issues)
        ELSE /\ InPrintOrder(IssueLines)
             /\ \A k \in 1..Len(all_issues) :
                    Count(IssueLines, issue_line(all_issues[k])) = Count(all_issues, all_issues[k])
             /\ Len(IssueLines) = Len(all_issues)

\* a completed run that prints warnings as well as errors, collected in
\* another order than the printed one
C4_MixedReport ==
    /\ Exited /\ raised = "" /\ exit_status = <<1>>
    /\ HasError /\ HasWarning
    /\ ~InPrintOrder(print_issues(all_issues))
    /\ Len(IssueLines) = Len(all_issues)

\* an aborted run that prints its issues out of order
C4_AbortUnsorted ==
    /\ Exited /\ exit_status = <<2>>
    /\ Len(IssueLines) >= 2
    /\ ~InPrintOrder(IssueLines)

-----------------------------------------------------------------------------
(* Runs of main() over small rosters: the family links and ages of a few     *)
(* characters vary, everything else about them is as in the valid dataset    *)

\* the ids of the roster are 1..MaxId
MaxId == 3

Ids == 1..MaxId

\* character i with the given age and family links
resident(i, age, spouse, children) ==
    With(With(With(base_character(i), "lastName", JStr(base_surname(0))), "age", age),
         "family", JDict(("spouse" :> spouse) @@ ("children" :> children)))

\* house n with the given occupants
household(n, occupants) == With(base_house(n), "occupants", occupants)

\* a street of two houses: the roster lives in house 0, the player in house 7
one_home == JList(<<household(0, IntList([i \in Ids |-> i])), base_house(7)>>)

\* the roster of the characters who[i], i in Ids
Roster(who) == JList([i \in Ids |-> who[i]])

\* family.spouse values: unmarried, an id of the roster, an id outside it, null
SpouseValues == {JInt(0 - 1), None} \cup {JInt(j) : j \in 1..(MaxId + 1)}

\* every character is 40 and childless; the spouse links of up to three of them vary
SpouseRosters ==
    {Roster([i \in Ids |-> resident(i, JInt(40), sp[i], IntList(<<>>))]) :
        sp \in {f \in [Ids -> SpouseValues] :
                  Cardinality({i \in Ids : f[i] # JInt(0 - 1)}) <= 3}}

\* family.children of character 1: ids above 1, one outside the roster, in
\* ascending order, possibly led by an entry that is no integer
ChildLists ==
    {IntList(sorted_ints(S)) : S \in SUBSET (2..(MaxId + 1))}
    \cup {JList(<<JStr(T["x"]), JInt(2)>>)}

\* ages either side of the 18-year gap to a parent of 40, and one that is no integer
ChildAges == {JInt(22), JInt(23), JStr(T["x"])}
ParentAges == {JInt(40), None}

\* character 1 lists children; its age and the ages of characters 2 and 3
\* vary, the others are 10; nobody is married
ParentRosters ==
    {Roster([i \in Ids |-> IF i = 1
                           THEN resident(1, pa, JInt(0 - 1), kids)
                           ELSE resident(i, IF i \in DOMAIN age THEN age[i] ELSE JInt(10),
                                         JInt(0 - 1), IntList(<<>>))]) :
        pa \in ParentAges, kids \in ChildLists, age \in [{2, 3} -> ChildAges]}

InitRel ==
    \E roster \in SpouseRosters \cup ParentRosters :
        Start(JsonFile(char_path, roster), JsonFile(house_path, one_home))

SpecRel == InitRel /\ [][Next]_vars

-----------------------------------------------------------------------------
(* Properties of the relationship indexes and their issues *)

\* main() ran every validator and printed its report
Completed == Exited /\ raised = "" /\ exit_status \in {<<0>>, <<1>>}

Reported(level, requirement, message) ==
    \E k \in 1..Len(all_issues) :
        all_issues[k] = [level |-> level, requirement |-> T[requirement], message |-> message]

\* t occurs in s
Contains(s, t) == \E k \in 1..(Len(s) - Len(t) + 1) : SubSeq(s, k, k + Len(t) - 1) = t

\* the value of family.spouse in the roster entry of b
SpouseField(b) == Get(family_of(chars_by_id.at[b]), "spouse")

\* b is in the roster and names a as its spouse
Mutual(a, b) == Has(chars_by_id, b) /\ SpouseField(b) = JInt(a)

MissingSpouseReported(a, b) ==
    Reported("ERROR", "2.2.8",
             T["NPC id="] \o str_int(a) \o T[": spouse id="] \o str_int(b)
             \o T[" does not exist in characters.json."])

AsymmetryReported(a, b) ==
    Reported("ERROR", "2.2.8",
             T["NPC id="] \o str_int(a) \o T[": spouse id="] \o str_int(b)
             \o T[" is not symmetric (NPC id="] \o str_int(b) \o T[" has family.spouse="]
             \o repr(SpouseField(b)) \o T[")."])

\* some issue about the link a -> b says the spouse is missing or not symmetric
SymmetryIssue(a, b) ==
    \E k \in 1..Len(all_issues) :
        /\ StartsWith(all_issues[k].message,
                      T["NPC id="] \o str_int(a) \o T[": spouse id="] \o str_int(b) \o T[" "])
        /\ \/ Contains(all_issues[k].message, T["does not exist"])
           \/ Contains(all_issues[k].message, T["is not symmetric"])

\* C8: for every a with spouse_of[a] = b, either b is in chars_by_id and b's
\* family.spouse is a, or an ERROR names a and b: b as non-existent when it is
\* missing, otherwise as not symmetric, with the spouse value b has; a mutual
\* link gets no such error.
C8_SpouseSymmetry ==
    Completed =>
        \A a \in Range(rel.spouse_of.keys) :
            LET b == rel.spouse_of.at[a]
            IN  /\ Has(chars_by_id, a)
                /\ IF Mutual(a, b)
                   THEN ~SymmetryIssue(a, b)
                   ELSE IF Has(chars_by_id, b)
                        THEN AsymmetryReported(a, b) /\ ~MissingSpouseReported(a, b)
                        ELSE MissingSpouseReported(a, b)

\* a roster with a mutual pair and a third character whose link to one of the
\* pair is not returned and is reported
C8_MutualAndOneSided ==
    /\ Completed
    /\ \E a, c \in Range(rel.spouse_of.keys) :
           /\ rel.spouse_of.at[a] # a
           /\ Mutual(a, rel.spouse_of.at[a])
           /\ ~SymmetryIssue(a, rel.spouse_of.at[a])
           /\ Has(chars_by_id, rel.spouse_of.at[c])
           /\ ~Mutual(c, rel.spouse_of.at[c])
           /\ AsymmetryReported(c, rel.spouse_of.at[c])

\* the integer entries of family.children in the roster entry of p
ListedChildren(p) == Range(int_children(chars_by_id.at[p]))

AgeOf(c) == Get(chars_by_id.at[c], "age")

MissingChildReported(p, c) ==
    Reported("ERROR", "2.2.8",
             T["NPC id="] \o str_int(p) \o T[": references non-existent child id="]
             \o str_int(c) \o T["."])

\* the age-gap error for parent p and child c that cites the two ages
GapReported(p, c) ==
    Reported("ERROR", "2.2.8.6",
             T["Parent/child age gap violation: parent id="] \o str_int(p) \o T[" age="]
             \o str(AgeOf(p)) \o T[", child id="] \o str_int(c) \o T[" age="]
             \o str(AgeOf(c)) \o T[" (must be >= 18 years older)."])

\* some age-gap issue is about parent p and child c
GapIssue(p, c) ==
    \E k \in 1..Len(all_issues) :
        /\ all_issues[k].requirement = T["2.2.8.6"]
        /\ StartsWith(all_issues[k].message,
                      T["Parent/child age gap violation: parent id="] \o str_int(p) \o T[" "])
        /\ Contains(all_issues[k].message, T[", child id="] \o str_int(c) \o T[" "])

\* C9: for every parent p and every child id c in p's family.children: when c
\* is not in chars_by_id the non-existent child is reported and no age gap;
\* otherwise, when both ages are integers, the 2.2.8.6 ERROR citing both ages
\* is reported if and only if age(p) - age(c) < 18, and no age gap is reported
\* when an age is no integer.
C9_ParentAgeGap ==
    Completed =>
        \A p \in Range(chars_by_id.keys) : \A c \in ListedChildren(p) :
            IF ~Has(chars_by_id, c)
            THEN MissingChildReported(p, c) /\ ~GapIssue(p, c)
            ELSE IF is_int(AgeOf(p)) /\ is_int(AgeOf(c))
                 THEN /\ GapReported(p, c) <=> AgeOf(p).v - AgeOf(c).v < 18
                      /\ GapIssue(p, c) <=> AgeOf(p).v - AgeOf(c).v < 18
                 ELSE ~GapIssue(p, c)

\* a parent with a child exactly 18 years younger and unreported, a child 17
\* years younger and reported, and a child that is not in the roster
C9_GapEitherSide ==
    /\ Completed
    /\ \E p \in Range(chars_by_id.keys) : \E c, d, e \in ListedChildren(p) :
           /\ Has(chars_by_id, c) /\ Has(chars_by_id, d)
           /\ is_int(AgeOf(p)) /\ is_int(AgeOf(c)) /\ is_int(AgeOf(d))
           /\ AgeOf(p).v - AgeOf(c).v = 18 /\ ~GapIssue(p, c)
           /\ AgeOf(p).v - AgeOf(d).v = 17 /\ GapReported(p, d)
           /\ ~Has(chars_by_id, e) /\ MissingChildReported(p, e)

-----------------------------------------------------------------------------
(* Runs of main() over a street of three houses, 0, 1 and the player's 7:    *)
(* where the characters of a small roster, and one id outside it, are listed *)

\* a character that is 40, unmarried and childless
plain_resident(i) == resident(i, JInt(40), JInt(0 - 1), IntList(<<>>))

\* where an id is listed: nowhere, in house 0, in house 1, in both
Places == {"none", "first", "second", "both"}

\* the ids of where's domain listed in a house of the given places, ascending
listed_in(where, places) == sorted_ints({c \in DOMAIN where : where[c] \in places})

\* houses 0, 1 and 7; character 1 is listed twice in house 0 when twice is
\* true; the list of house 1 ends with an entry that is no integer
three_houses(where, twice) ==
    JList(<< household(0, IntList((IF twice THEN <<1>> ELSE <<>>)
                                  \o listed_in(where, {"first", "both"}))),
             household(1, JList(IntList(listed_in(where, {"second", "both"})).v
                                \o <<JStr(T["1"])>>)),
             base_house(7) >>)

\* every placement of the ids, and those with character 1 twice in house 0
OccupancyStreets ==
    {three_houses(where, FALSE) : where \in [1..(MaxId + 1) -> Places]}
    \cup {three_houses(where, TRUE) :
             where \in {w \in [1..(MaxId + 1) -> Places] : w[1] = "first"}}

InitOccupancy ==
    \E street \in OccupancyStreets :
        Start(JsonFile(char_path, Roster([i \in Ids |-> plain_resident(i)])),
              JsonFile(house_path, street))

SpecOccupancy == InitOccupancy /\ [][Next]_vars

\* the houses of houses_by_number whose occupants list the integer c
HousesListing(c) ==
    {hn \in Range(houses_by_number.keys) :
        c \in Range(int_occupants(Get(houses_by_number.at[hn], "occupants")))}

\* some ERROR with requirement 2.8 names the character c
OccupancyIssue(c) ==
    \E k \in 1..Len(all_issues) :
        /\ all_issues[k].level = "ERROR"
        /\ all_issues[k].requirement = T["2.8"]
        /\ StartsWith(all_issues[k].message, T["NPC id="] \o str_int(c) \o T[" "])

NoHouseReported(c) ==
    Reported("ERROR", "2.8",
             T["NPC id="] \o str_int(c) \o T[" does not appear in any house occupants list."])

ManyHousesReported(c) ==
    Reported("ERROR", "2.8",
             T["NPC id="] \o str_int(c) \o T[" appears in multiple houses "]
             \o repr_ints(sorted_ints(HousesListing(c))) \o T[" (must be 1)."])

\* C5: for every non-player character c of chars_by_id an ERROR with
\* requirement 2.8 names c if and only if the number of houses of
\* houses_by_number whose occupants list c is not 1; listed in more than one
\* house, the error names those house numbers; listed in none, the error is the
\* distinct one that c does not appear in any house.
C5_ExactlyOneHouse ==
    Completed =>
        \A c \in Range(chars_by_id.keys) \ {0} :
            /\ OccupancyIssue(c) <=> Cardinality(HousesListing(c)) # 1
            /\ NoHouseReported(c) <=> HousesListing(c) = {}
            /\ ManyHousesReported(c) <=> Cardinality(HousesListing(c)) > 1

\* a street on which one character is listed twice by one house, one by two
\* houses and one by none
C5_EveryPlacement ==
    /\ Completed
    /\ \E a, b, c \in Range(chars_by_id.keys) :
           /\ HousesListing(a) = {0}
           /\ Len(SelectSeq(int_occupants(Get(houses_by_number.at[0], "occupants")),
                            LAMBDA o : o = a)) = 2
           /\ ~OccupancyIssue(a)
           /\ Cardinality(HousesListing(b)) = 2 /\ ManyHousesReported(b)
           /\ HousesListing(c) = {} /\ NoHouseReported(c)

-----------------------------------------------------------------------------
(* Runs of main() over one household: who of a small family lives in it *)

\* the family: 1 and 2 are married to each other or not, 1 has the children
\* kids1 and 2 the children kids2; everybody has the given age
family_roster(married, kids1, kids2, age) ==
    Roster([i \in Ids |->
               resident(i, age[i],
                        IF married /\ i \in {1, 2} THEN JInt(3 - i) ELSE JInt(0 - 1),
                        IntList(sorted_ints(IF i = 1 THEN kids1
                                            ELSE IF i = 2 THEN kids2 ELSE {})))])

AllAdults == [i \in Ids |-> JInt(40)]

FamilyRosters ==
    {family_roster(married, kids1, kids2, AllAdults) :
        married \in BOOLEAN, kids1 \in SUBSET (2..MaxId), kids2 \in {{}, {3}}}

\* the occupants of the household: members of the roster in ascending order,
\* and lists with an id twice, out of order, with the player, with an id
\* outside the roster
OccupantLists ==
    {sorted_ints(S) : S \in (SUBSET Ids) \ {{}}}
    \cup {<<3, 3>>, <<2, 2, 3>>, <<3, 1>>, <<0, 1, 3>>, <<1, MaxId + 1>>}

\* the house's surname is blank
blank_surname(house) == With(house, "surname", JStr(T["  "]))

\* house 0 with the occupants, the player in house 7
household_street(occupants) == JList(<<household(0, IntList(occupants)), base_house(7)>>)

\* the whole roster in a house without a valid surname, and in house 7
OddStreets ==
    { JList(<<blank_surname(household(0, IntList(sorted_ints(Ids)))), base_house(7)>>),
      JList(<<household(7, IntList(sorted_ints(Ids)))>>) }

InitRelated ==
    \E roster \in FamilyRosters :
        \E street \in {household_street(occupants) : occupants \in OccupantLists}
                      \cup OddStreets :
            Start(JsonFile(char_path, roster), JsonFile(house_path, street))

SpecRelated == InitRelated /\ [][Next]_vars

\* a and b are spouses, parent and child, or share a parent, by the indexes
Related(a, b) ==
    \/ Has(rel.spouse_of, a) /\ rel.spouse_of.at[a] = b
    \/ Has(rel.spouse_of, b) /\ rel.spouse_of.at[b] = a
    \/ b \in GetOr(rel.children_of_parent, a, {})
    \/ a \in GetOr(rel.children_of_parent, b, {})
    \/ GetOr(rel.parents_of_child, a, {}) \cap GetOr(rel.parents_of_child, b, {}) # {}

\* the members of S joined to a member of X by a chain of relations inside S
RECURSIVE Reachable(_, _)
Reachable(S, X) ==
    LET more == X \cup {b \in S : \E a \in X : Related(a, b)}
    IN  IF more = X THEN X ELSE Reachable(S, more)

SingleComponent(S) == \A a \in S : Reachable(S, {a}) = S

\* the components of S, each a sorted list
ComponentsOf(S) == {sorted_ints(Reachable(S, {a})) : a \in S}

\* the integer occupants of house hn
OccupantsOf(hn) == int_occupants(Get(houses_by_number.at[hn], "occupants"))

\* the occupants of house hn that are characters of the roster other than the player
Residents(hn) == {o \in Range(OccupantsOf(hn)) : o # 0 /\ Has(chars_by_id, o)}

RelatednessMessage(hn) ==
    T["house "] \o str_int(hn)
    \o T[": occupants are not all related under allowed relationships. "]
    \o T["Disconnected components: "]

\* the 2.9 errors reported for house hn
RelatednessIssues(hn) ==
    {k \in 1..Len(all_issues) :
        /\ all_issues[k].level = "ERROR"
        /\ all_issues[k].requirement = T["2.9"]
        /\ StartsWith(all_issues[k].message, RelatednessMessage(hn))}

\* the message lists the sorted components of S in some order
ListsComponents(message, hn, S) ==
    \E order \in [1..Cardinality(ComponentsOf(S)) -> ComponentsOf(S)] :
        /\ \A i, j \in DOMAIN order : order[i] = order[j] => i = j
        /\ message = RelatednessMessage(hn) \o repr_components(order)

\* C6: for each house of houses_by_number other than 7, a 2.9 ERROR is
\* reported for the house if and only if its occupants that are non-player
\* characters of chars_by_id do not form a single connected component under
\* spouse, parent-child and shared-parent edges; with 0 or 1 such occupants
\* there is no error; the reported components are the sorted components, a
\* partition of those occupants.
C6_RelatednessIffDisconnected ==
    Completed =>
        \A hn \in Range(houses_by_number.keys) :
            IF hn = 7
            THEN RelatednessIssues(hn) = {}
            ELSE /\ RelatednessIssues(hn) # {} <=> ~SingleComponent(Residents(hn))
                 /\ Cardinality(Residents(hn)) <= 1 => RelatednessIssues(hn) = {}
                 /\ \A k \in RelatednessIssues(hn) :
                        ListsComponents(all_issues[k].message, hn, Residents(hn))

\* a house whose only resident is listed twice is reported as not related,
\* with the one component the resident forms
C6_LoneResidentReported ==
    /\ Completed
    /\ \E hn \in Range(houses_by_number.keys) : \E c \in Residents(hn) :
           /\ Residents(hn) = {c}
           /\ OccupantsOf(hn) = <<c, c>>
           /\ Reported("ERROR", "2.9",
                       RelatednessMessage(hn) \o repr_components(<< <<c>> >>))

\* a house without a valid surname whose residents are not related is not reported
C6_BlankSurnameUnchecked ==
    /\ Completed
    /\ \E hn \in Range(houses_by_number.keys) \ {7} :
           /\ ~NonBlankStr(Get(houses_by_number.at[hn], "surname"))
           /\ ~SingleComponent(Residents(hn))
           /\ RelatednessIssues(hn) = {}

-----------------------------------------------------------------------------
(* Runs of main() over two houses and a family with minors *)

\* the ages: 1 is 40, 2 is 40, 17 or of no integer age, 3 is 17 or 18, the
\* others are 10
MinorAges ==
    {[i \in Ids |-> IF i = 1 THEN JInt(40)
                    ELSE IF i = 2 THEN a2 ELSE IF i = 3 THEN a3 ELSE JInt(10)] :
        a2 \in {JInt(40), JInt(17), JStr(T["x"])}, a3 \in {JInt(17), JInt(18)}}

\* nobody is married; 1 has children among 2 and 3
MinorRosters ==
    {family_roster(FALSE, kids1, {}, age) : kids1 \in SUBSET {2, 3}, age \in MinorAges}

\* houses 0 and 1 in the order given, then the player's house; a house without
\* occupants is left out of the file
two_houses(order, first, second) ==
    LET occupants == (0 :> first) @@ (1 :> second)
        present == SelectSeq(order, LAMBDA n : occupants[n] # {})
    IN  JList([k \in 1..Len(present) |->
                  household(present[k], IntList(sorted_ints(occupants[present[k]])))]
              \o <<base_house(7)>>)

\* any of the roster in house 0; none, 3 or 2 and 3 in house 1 as well
MinorStreets ==
    {two_houses(order, first, second) :
        order \in {<<0, 1>>, <<1, 0>>}, first \in SUBSET Ids, second \in {{}, {3}, {2, 3}}}

InitMinor ==
    \E roster \in MinorRosters : \E street \in MinorStreets :
        Start(JsonFile(char_path, roster), JsonFile(house_path, street))

SpecMinor == InitMinor /\ [][Next]_vars

IsMinor(m) == m # 0 /\ is_int(AgeOf(m)) /\ AgeOf(m).v <= 17
IsAdult(u) == is_int(AgeOf(u)) /\ AgeOf(u).v >= 18

\* the occupants of house hn that are characters of the roster, as listed
Housemates(hn) == SelectSeq(OccupantsOf(hn), LAMBDA o : Has(chars_by_id, o))

\* an adult of house hn other than m is joined to m by relations inside the house
HasGuardian(m, hn) ==
    \E u \in Reachable(Range(Housemates(hn)), {m}) \ {m} : IsAdult(u)

\* the 2.2.4.1 error naming m and house hn that lists the adults of the house
GuardianReported(m, hn) ==
    Reported("ERROR", "2.2.4.1",
             T["Minor NPC id="] \o str_int(m) \o T[" age="] \o str(AgeOf(m))
             \o T[" in house "] \o str_int(hn)
             \o T[" does not live with a related adult family member. "]
             \o T["Adult occupants present: "]
             \o repr_ints(sorted_list(SelectSeq(Housemates(hn), IsAdult))))

\* some 2.2.4.1 error names m and house hn
GuardianIssue(m, hn) ==
    \E k \in 1..Len(all_issues) :
        /\ all_issues[k].requirement = T["2.2.4.1"]
        /\ StartsWith(all_issues[k].message, T["Minor NPC id="] \o str_int(m) \o T[" "])
        /\ Contains(all_issues[k].message, T[" in house "] \o str_int(hn) \o T[" "])

\* the first house of houses_by_number, in its order, that lists c
FirstHouseListing(c) ==
    houses_by_number.keys[CHOOSE k \in 1..Len(houses_by_number.keys) :
        /\ houses_by_number.keys[k] \in HousesListing(c)
        /\ \A j \in 1..(k - 1) : houses_by_number.keys[j] \notin HousesListing(c)]

Minors == {m \in Range(chars_by_id.keys) : IsMinor(m)}

\* C7 as stated: for every minor and every house that lists it, the error
\* naming the minor and the house is reported if and only if the minor has no
\* related adult in that house
C7_EveryHouseOfMinor ==
    Completed =>
        \A m \in Minors : \A hn \in HousesListing(m) :
            /\ GuardianReported(m, hn) <=> ~HasGuardian(m, hn)
            /\ GuardianIssue(m, hn) <=> ~HasGuardian(m, hn)

\* C7: for every non-player character m of integer age <= 17 that some house
\* lists, taking the first house of houses_by_number that lists m, the
\* 2.2.4.1 ERROR naming m and that house is reported if and only if no
\* occupant of that house other than m, reachable from m by spouse,
\* parent-child and sibling edges among the house's occupants, has an integer
\* age >= 18; the error lists the occupants of that house of age >= 18; no
\* error names m with another house that lists it.
C7_FirstHouseOfMinor ==
    Completed =>
        \A m \in Minors : \A hn \in HousesListing(m) :
            IF hn = FirstHouseListing(m)
            THEN /\ GuardianReported(m, hn) <=> ~HasGuardian(m, hn)
                 /\ GuardianIssue(m, hn) <=> ~HasGuardian(m, hn)
            ELSE ~GuardianIssue(m, hn)

\* a minor reported next to an adult of its house that is not related to it,
\* and in the same house a minor with a parent, not reported
C7_MinorsOfEachKind ==
    /\ Completed
    /\ \E m, n \in Minors : \E hn \in HousesListing(m) \cap HousesListing(n) :
           /\ hn = FirstHouseListing(m) /\ hn = FirstHouseListing(n)
           /\ \E u \in Range(Housemates(hn)) : IsAdult(u)
           /\ ~HasGuardian(m, hn) /\ GuardianReported(m, hn)
           /\ HasGuardian(n, hn) /\ ~GuardianIssue(n, hn)

\* a minor listed by two houses, alone in the second one, and not reported for it
C7_SecondHouseUnchecked ==
    /\ Completed
    /\ \E m \in Minors : \E hn \in HousesListing(m) :
           /\ hn # FirstHouseListing(m)
           /\ ~HasGuardian(m, hn)
           /\ ~GuardianIssue(m, hn)

-----------------------------------------------------------------------------
(* Runs of main() over the bounds of the valid street with the z and zsize   *)
(* of a few houses moved.  The roster is empty and every house but the       *)
(* player's lists the one occupant 1, so that the issues of a run are those  *)
(* of the street and two about the roster.                                   *)

\* the most tiny units (of 5e-10) a z is moved by
MaxTiny == 3

\* the moves of a z, in tiny units: none, within the tolerance, beyond it
Shifts == (0..MaxTiny) \ {EPS}

\* house n with z moved by whole and tiny and zsize grown by grow
moved_house(n, whole, tiny, grow) ==
    LET b == base_house(n).v["bounds"]
        z == IF tiny = 0 THEN JInt(b.v["z"].v + whole) ELSE JFloat(b.v["z"].v + whole, tiny)
        house == IF n = 7 THEN base_house(n) ELSE household(n, IntList(<<1>>))
    IN  With(house, "bounds", With(With(b, "z", z), "zsize", JInt(b.v["zsize"].v + grow)))

\* the street with the z of houses 0, 2 and 4 moved by tiny[1..3] units
shifted_street(tiny) ==
    JList([k \in 1..30 |->
              moved_house(k - 1, 0,
                          IF k - 1 \in {0, 2, 4} THEN tiny[((k - 1) \div 2) + 1] ELSE 0, 0)])

\* the street with house 0 deeper by one (in wide), house 2 a unit further
\* down the street (in far), house 29 deeper by one (in wide)
stretched_street(wide, far) ==
    JList([k \in 1..30 |->
              moved_house(k - 1, IF k - 1 \in far THEN 1 ELSE 0, 0,
                          IF k - 1 \in wide THEN 1 ELSE 0)])

Streets ==
    {shifted_street(tiny) : tiny \in [1..3 -> Shifts]}
    \cup {stretched_street(wide, far) : wide \in SUBSET {0, 29}, far \in SUBSET {2}}

InitStreet ==
    \E street \in Streets :
        Start(JsonFile(char_path, JList(<<>>)), JsonFile(house_path, street))

SpecStreet == InitStreet /\ [][Next]_vars

\* the houses of the side of parity p, in ascending order
SideHouses(p) == [k \in 1..15 |-> 2 * (k - 1) + p]
SideLabel(p) == IF p = 0 THEN T["Even side (2.3.6.4.1):"] ELSE T["Odd side (2.3.6.4.2):"]

BoundsOf(hn) == Get(houses_by_number.at[hn], "bounds")

\* the 15 houses of the side are present with numeric z and integer zsize
SideMeasured(p) ==
    \A k \in 1..15 :
        /\ Has(houses_by_number, SideHouses(p)[k])
        /\ isinstance(BoundsOf(SideHouses(p)[k]), "dict")
        /\ is_number(Get(BoundsOf(SideHouses(p)[k]), "z"))
        /\ is_int(Get(BoundsOf(SideHouses(p)[k]), "zsize"))

\* z and zsize of the k-th house of the side
SideZ(p, k) == float(Get(BoundsOf(SideHouses(p)[k]), "z"))
SideDepth(p, k) == Get(BoundsOf(SideHouses(p)[k]), "zsize").v

\* the sum of the zsize of the first k houses of the side
RECURSIVE DepthSum(_, _)
DepthSum(p, k) == IF k = 0 THEN 0 ELSE DepthSum(p, k - 1) + SideDepth(p, k)

\* some gap/overlap error or sum error is reported for the side
SideError(p) ==
    \E k \in 1..Len(all_issues) :
        /\ all_issues[k].requirement \in {T["2.3.6.4.3"], T["2.3.6.5"]}
        /\ StartsWith(all_issues[k].message, SideLabel(p))

\* the z-spans of the side tile [0, 200) exactly
ExactTiling(p) ==
    /\ SideZ(p, 1) = FloatOf(0)
    /\ \A k \in 1..14 : SideZ(p, k + 1) = FAdd(SideZ(p, k), FloatOf(SideDepth(p, k)))
    /\ FAdd(SideZ(p, 15), FloatOf(SideDepth(p, 15))) = FloatOf(200)

\* z is within 1e-9 of the integer n
WithinEps(z, n) == z.i = n /\ z.e >= 0 - EPS /\ z.e <= EPS

\* every z is within 1e-9 of the sum of the zsize before it, and the zsize sum to 200
TilingWithinEps(p) ==
    /\ \A k \in 1..15 : WithinEps(SideZ(p, k), DepthSum(p, k - 1))
    /\ DepthSum(p, 15) = 200

\* C10 as stated: no gap/overlap or sum error for a side if and only if its
\* z-spans tile [0, 200) exactly
C10_ExactTiling ==
    Completed => \A p \in {0, 1} : SideMeasured(p) => (~SideError(p) <=> ExactTiling(p))

\* C10: for a side whose 15 houses are present with numeric z and integer
\* zsize, neither a gap/overlap error nor a sum error is reported if and only
\* if, in ascending houseNumber order, every z is within 1e-9 of the sum of the
\* zsize of the houses before it (0 for the first) and the zsize sum to 200.
C10_TilingWithinEps ==
    Completed => \A p \in {0, 1} : SideMeasured(p) => (~SideError(p) <=> TilingWithinEps(p))

\* a side that is not an exact tiling and is accepted, next to runs whose
\* sides are reported
C10_InexactAccepted ==
    /\ Completed
    /\ SideMeasured(0)
    /\ ~ExactTiling(0)
    /\ TilingWithinEps(0)
    /\ ~SideError(0)

\* a side with a house beyond the tolerance, reported
C10_BeyondEpsReported ==
    /\ Completed
    /\ SideMeasured(0)
    /\ DepthSum(0, 15) = 200
    /\ \E k \in 1..15 : SideZ(0, k).i = DepthSum(0, k - 1) /\ SideZ(0, k).e > EPS
    /\ SideError(0)

-----------------------------------------------------------------------------
(* Runs of main() over small rosters whose genders and spouse links vary *)

\* gender values: the two known ones, a string that is neither, null
GenderValues == {JStr(T["M"]), JStr(T["F"]), JStr(T["X"]), None}

\* the spouse links of the roster: a mutual pair, a one-sided link, a link to
\* oneself, a link out of the roster next to one into it
SpouseLinks ==
    {[i \in Ids |-> JInt(CASE i = 1 -> 2 [] i = 2 -> 1 [] OTHER -> 0 - 1)],
     [i \in Ids |-> JInt(CASE i = 1 -> 2 [] OTHER -> 0 - 1)],
     [i \in Ids |-> JInt(CASE i = 1 -> 1 [] OTHER -> 0 - 1)],
     [i \in Ids |-> JInt(CASE i = 1 -> MaxId + 1 [] i = 2 -> 1 [] OTHER -> 0 - 1)]}

\* every character is 40 and childless; the genders of characters 1 and 2 vary
GenderRosters ==
    {Roster([i \in Ids |->
                With(resident(i, JInt(40), sp[i], IntList(<<>>)), "gender",
                     IF i \in DOMAIN g THEN g[i] ELSE JStr(T["F"]))]) :
        sp \in SpouseLinks, g \in [{1, 2} -> GenderValues]}

InitGender ==
    \E roster \in GenderRosters :
        Start(JsonFile(char_path, roster), JsonFile(house_path, one_home))

SpecGender == InitGender /\ [][Next]_vars

GenderOf(c) == Get(chars_by_id.at[c], "gender")

KnownGender(g) == g \in {JStr(T["M"]), JStr(T["F"])}

\* the marriage error that names a, b and the gender values of both
MarriageGenderReported(a, b) ==
    Reported("ERROR", "2.2.8.2",
             T["Marriage gender violation: NPC id="] \o str_int(a) \o T[" gender="]
             \o str(GenderOf(a)) \o T[" married to NPC id="] \o str_int(b)
             \o T[" gender="] \o str(GenderOf(b)) \o T["."])

\* some issue citing 2.2.8.2 is about the marriage of a to b
MarriageGenderIssue(a, b) ==
    \E k \in 1..Len(all_issues) :
        /\ all_issues[k].requirement = T["2.2.8.2"]
        /\ StartsWith(all_issues[k].message,
                      T["Marriage gender violation: NPC id="] \o str_int(a) \o T[" "])
        /\ Contains(all_issues[k].message,
                    T[" married to NPC id="] \o str_int(b) \o T[" "])

\* C11: for every spouse link a -> b with b in chars_by_id, the ERROR 2.2.8.2
\* that names both ids and both gender values is reported exactly when both
\* genders are M or F and are equal; when the genders differ, or one of them
\* is neither M nor F, no issue citing 2.2.8.2 is about that marriage.
C11_MarriageGenderRule ==
    Completed =>
        \A a \in Range(rel.spouse_of.keys) :
            LET b == rel.spouse_of.at[a]
            IN  Has(chars_by_id, b) =>
                    IF /\ KnownGender(GenderOf(a))
                       /\ KnownGender(GenderOf(b))
                       /\ GenderOf(a) = GenderOf(b)
                    THEN MarriageGenderReported(a, b)
                    ELSE ~MarriageGenderIssue(a, b)

\* a mutual pair of the same known gender, reported in both directions
C11_SameGenderPairReported ==
    /\ Completed
    /\ \E a, b \in Range(rel.spouse_of.keys) :
           /\ a # b
           /\ rel.spouse_of.at[a] = b
           /\ rel.spouse_of.at[b] = a
           /\ KnownGender(GenderOf(a))
           /\ GenderOf(a) = GenderOf(b)
           /\ MarriageGenderReported(a, b)
           /\ MarriageGenderReported(b, a)

-----------------------------------------------------------------------------
(* Runs of main() over small rosters in which a character that may be a      *)
(* minor may be married and may list children                                *)

\* ages either side of 18, and one that is no integer
YoungAges == {JInt(17), JInt(18), JStr(T["x"])}

\* family.spouse of character 1: unmarried, married in or out of the roster, null
YoungSpouses == {JInt(0 - 1), JInt(2), JInt(MaxId + 1), None}

\* family.children of character 1: none, one of the roster, an entry that is
\* no integer, null
YoungChildren == {IntList(<<>>), IntList(<<MaxId>>), JList(<<JStr(T["x"])>>), None}

\* character 1 varies in age, spouse and children; character 2 is 17 or 40
\* and names 1 as its spouse; the others are 10 and single
YoungRosters ==
    {Roster([i \in Ids |->
                CASE i = 1 -> resident(1, a1, sp, kids)
                  [] i = 2 -> resident(2, a2, JInt(1), IntList(<<>>))
                  [] OTHER -> resident(i, JInt(10), JInt(0 - 1), IntList(<<>>))]) :
        a1 \in YoungAges, sp \in YoungSpouses, kids \in YoungChildren,
        a2 \in {JInt(17), JInt(40)}}

InitYoung ==
    \E roster \in YoungRosters :
        Start(JsonFile(char_path, roster), JsonFile(house_path, one_home))

SpecYoung == InitYoung /\ [][Next]_vars

ChildrenField(c) == Get(family_of(chars_by_id.at[c]), "children")

\* the issues citing req that validate_cross_file_consistency words as
\* "NPC id=c age=..."
IssuesOfMinor(c, req) ==
    {k \in 1..Len(all_issues) :
        /\ all_issues[k].requirement = T[req]
        /\ StartsWith(all_issues[k].message, T["NPC id="] \o str_int(c) \o T[" age="])}

HasSpouse(c) == is_int(SpouseField(c)) /\ SpouseField(c) # JInt(0 - 1)

HasChildrenListed(c) == isinstance(ChildrenField(c), "list") /\ ChildrenField(c).v # <<>>

MarriedMinorReported(c) ==
    Reported("ERROR", "2.2.8.4",
             T["NPC id="] \o str_int(c) \o T[" age="] \o str(AgeOf(c))
             \o T[" is married (spouse="] \o str(SpouseField(c)) \o T[")."])

MinorParentReported(c) ==
    Reported("ERROR", "2.2.8.5",
             T["NPC id="] \o str_int(c) \o T[" age="] \o str(AgeOf(c))
             \o T[" has children listed: "] \o repr(ChildrenField(c)) \o T["."])

\* C12: for every character of chars_by_id with an integer age below 18 the
\* cross-file checker reports exactly one ERROR 2.2.8.4 when family.spouse is
\* an integer other than -1, and none otherwise, and exactly one ERROR 2.2.8.5
\* when family.children is a non-empty list, and none otherwise, each
\* whatever the other; for a character of 18 or more it reports neither.
C12_MinorsUnmarriedChildless ==
    Completed =>
        \A c \in Range(chars_by_id.keys) :
            is_int(AgeOf(c)) =>
                IF AgeOf(c).v < 18
                THEN /\ IF HasSpouse(c)
                        THEN /\ Cardinality(IssuesOfMinor(c, "2.2.8.4")) = 1
                             /\ MarriedMinorReported(c)
                        ELSE IssuesOfMinor(c, "2.2.8.4") = {}
                     /\ IF HasChildrenListed(c)
                        THEN /\ Cardinality(IssuesOfMinor(c, "2.2.8.5")) = 1
                             /\ MinorParentReported(c)
                        ELSE IssuesOfMinor(c, "2.2.8.5") = {}
                ELSE /\ IssuesOfMinor(c, "2.2.8.4") = {}
                     /\ IssuesOfMinor(c, "2.2.8.5") = {}

\* a married minor that lists children gets both errors, next to an adult
\* that is married and gets neither
C12_BothFireForOneMinor ==
    /\ Completed
    /\ \E c, d \in Range(chars_by_id.keys) :
           /\ is_int(AgeOf(c)) /\ AgeOf(c).v < 18
           /\ HasSpouse(c) /\ HasChildrenListed(c)
           /\ MarriedMinorReported(c) /\ MinorParentReported(c)
           /\ is_int(AgeOf(d)) /\ AgeOf(d).v >= 18
           /\ HasSpouse(d)
           /\ IssuesOfMinor(d, "2.2.8.4") = {}

-----------------------------------------------------------------------------
(* Runs of main() over small rosters in which entries may carry the player's *)
(* id 0                                                                      *)

\* the id of entry i: its own, the player's, or false, which equals 0 in
\* Python and is no integer for is_int
PlayerIds(i) == {JInt(i), JInt(0), JBool(FALSE)}

PlayerRosters ==
    {Roster([i \in Ids |->
                With(resident(i, JInt(40), JInt(0 - 1), IntList(<<>>)), "id", id[i])]) :
        id \in {f \in [Ids -> UNION {PlayerIds(i) : i \in Ids}] :
                  \A i \in Ids : f[i] \in PlayerIds(i)}}

InitPlayer ==
    \E roster \in PlayerRosters :
        Start(JsonFile(char_path, roster), JsonFile(house_path, one_home))

SpecPlayer == InitPlayer /\ [][Next]_vars

\* validate_characters has returned
CharactersValidated == pc \in {"relationships", "cross_file", "report"} \/ Completed

\* validate_cross_file_consistency has returned
CrossFileChecked == pc = "report" \/ Completed

\* the entries of the parsed roster that are objects with the integer id 0
PlayerEntries ==
    {k \in 1..Len(characters.v) :
        isinstance(characters.v[k], "dict") /\ Get(characters.v[k], "id") = JInt(0)}

ValidatorPlayerMessage == T["characters.json: player id=0 must NOT appear in characters.json."]
CrossFilePlayerMessage == T["Player id=0 must not be present in characters.json."]

IssuesWorded(message) == {k \in 1..Len(all_issues) : all_issues[k].message = message}

\* C13 as stated: when id 0 is in the roster, both checks report it in the
\* same run and the two errors carry distinct requirement identifiers.
C13_DistinctIdentifiers ==
    (Completed /\ Has(chars_by_id, 0)) =>
        \E j \in IssuesWorded(ValidatorPlayerMessage) :
            \E k \in IssuesWorded(CrossFilePlayerMessage) :
                all_issues[j].requirement # all_issues[k].requirement

\* C13: the absence of the player's record is checked twice. Once
\* validate_characters has returned, its error is in the issue list once per
\* roster entry with the integer id 0; once validate_cross_file_consistency
\* has returned, its own error is there exactly once when 0 is in chars_by_id
\* and not at all otherwise; the two are errors with different messages that
\* cite the same requirement, 2.4.1.
C13_PlayerCheckedTwice ==
    /\ CharactersValidated =>
           /\ Has(chars_by_id, 0) <=> PlayerEntries # {}
           /\ Cardinality(IssuesWorded(ValidatorPlayerMessage)) = Cardinality(PlayerEntries)
    /\ CrossFileChecked =>
           Cardinality(IssuesWorded(CrossFilePlayerMessage))
               = IF Has(chars_by_id, 0) THEN 1 ELSE 0
    /\ \A k \in IssuesWorded(ValidatorPlayerMessage) \cup IssuesWorded(CrossFilePlayerMessage) :
           /\ all_issues[k].level = "ERROR"
           /\ all_issues[k].requirement = T["2.4.1"]

\* a roster with two entries of id 0: the validator reports each, the
\* cross-file checker reports the player once, under the same requirement
C13_PlayerReportedByBoth ==
    /\ Completed
    /\ Has(chars_by_id, 0)
    /\ Cardinality(PlayerEntries) = 2
    /\ Cardinality(IssuesWorded(ValidatorPlayerMessage)) = 2
    /\ \E j \in IssuesWorded(ValidatorPlayerMessage) :
           \E k \in IssuesWorded(CrossFilePlayerMessage) :
               all_issues[j].requirement = all_issues[k].requirement

-----------------------------------------------------------------------------
(* main() run more than once over the same two files, the terminal keeping   *)
(* what every run printed                                                    *)

\* the runs of main() over the same files
MaxRuns == 2

\* the reports printed so far: each run that ends at line 1104 prints one summary
Reports == Count(stdout, T["Summary:"])

\* a variant of RunAgain in which the issues of the run before are not dropped
RunAgainOnLeftovers ==
    /\ pc = "done"
    /\ raised = ""
    /\ Reports < MaxRuns
    /\ pc' = "load_chars"
    /\ exit_status' = <<>>
    /\ UNCHANGED <<char_file, house_file, all_issues, char_raw, house_raw, characters,
                   houses, houses_by_number, chars_by_id, rel, stdout, raised>>

\* main() is called again on the files of the run before: all_issues and the
\* other locals are new, the files and the terminal are as they were left
RunAgain ==
    /\ pc = "done"
    /\ raised = ""
    /\ Reports < MaxRuns
    /\ pc' = "load_chars"
    /\ all_issues' = <<>>
    /\ char_raw' = <<>>
    /\ house_raw' = <<>>
    /\ characters' = None
    /\ houses' = None
    /\ houses_by_number' = EmptyDict
    /\ chars_by_id' = EmptyDict
    /\ rel' = [spouse_of |-> EmptyDict, parents_of_child |-> EmptyDict,
               children_of_parent |-> EmptyDict]
    /\ exit_status' = <<>>
    /\ UNCHANGED <<char_file, house_file, stdout, raised>>

NextTwice == Next \/ RunAgain

\* characters 1 and 2 may be married, 1 may have children among the others
TwiceRosters ==
    {family_roster(married, kids1, {}, AllAdults) :
        married \in BOOLEAN, kids1 \in SUBSET (2..MaxId)}

\* the household lists the roster in ascending order, the roster led by its
\* last member, or all but character 1
TwiceStreets ==
    {household_street(occupants) :
        occupants \in {sorted_ints(Ids), <<MaxId>> \o sorted_ints(Ids \ {MaxId}),
                       sorted_ints(Ids \ {1})}}

InitTwice ==
    \E roster \in TwiceRosters : \E street \in TwiceStreets :
        Start(JsonFile(char_path, roster), JsonFile(house_path, street))

SpecTwice == InitTwice /\ [][NextTwice]_vars

\* the lines of one report, all reports being of one length
ReportLength == Len(stdout) \div Reports

-----------------------------------------------------------------------------
(* Runs of main() over streets whose even side has houses moved along z *)

\* house n with a z that is no number
unmeasured_house(n) ==
    LET house == moved_house(n, 0, 0, 0)
    IN  With(house, "bounds", With(house.v["bounds"], "z", JStr(T["x"])))

\* houses in far are one unit further down the street, house 4 is moved by
\* tiny units, the houses in blank have a z that is no number
walk_street(far, tiny, blank) ==
    JList([k \in 1..30 |->
              IF k - 1 \in blank
              THEN unmeasured_house(k - 1)
              ELSE moved_house(k - 1, IF k - 1 \in far THEN 1 ELSE 0,
                               IF k - 1 = 4 THEN tiny ELSE 0, 0)])

\* the second house and the last house of the even side may be moved
WalkStreets ==
    {walk_street(far, tiny, blank) :
        far \in SUBSET {2, 28}, tiny \in Shifts, blank \in {{}, {6}}}

InitWalk ==
    \E street \in WalkStreets :
        Start(JsonFile(char_path, JList(<<>>)), JsonFile(house_path, street))

SpecWalk == InitWalk /\ [][Next]_vars

\* the 15 houses of the side are in houses_by_number
SideComplete(p) == \A k \in 1..15 : Has(houses_by_number, SideHouses(p)[k])

\* the k-th house of the side has a numeric z and an integer zsize
Measured(p, k) ==
    /\ isinstance(BoundsOf(SideHouses(p)[k]), "dict")
    /\ is_number(Get(BoundsOf(SideHouses(p)[k]), "z"))
    /\ is_int(Get(BoundsOf(SideHouses(p)[k]), "zsize"))

\* a and b are at most tol tiny units apart
Near(a, b, tol) == FLe(FAbs(FSub(a, b)), [i |-> 0, e |-> tol])

\* the running value after the k-th house of the side, before being its value
\* on reaching that house: a house that is not measured leaves it alone; a
\* measured house adds its zsize to it, or to its own z when that is more than
\* tol away from it
RunningAfter(p, k, tol, before) ==
    IF ~Measured(p, k)
    THEN before
    ELSE FAdd(IF Near(SideZ(p, k), before, tol) THEN before ELSE SideZ(p, k),
              FloatOf(SideDepth(p, k)))

\* the running expected z on reaching the k-th house of the side: 0 at the first
RECURSIVE Running(_, _, _)
Running(p, k, tol) ==
    IF k = 1
    THEN FloatOf(0)
    ELSE CHOOSE r \in {RunningAfter(p, k - 1, tol, before) :
                         before \in {Running(p, k - 1, tol)}} : TRUE

\* the gap/overlap errors about the k-th house of the side
GapIssues(p, k) ==
    {j \in 1..Len(all_issues) :
        /\ all_issues[j].requirement = T["2.3.6.4.3"]
        /\ StartsWith(all_issues[j].message,
                      SideLabel(p) \o T[" house "] \o str_int(SideHouses(p)[k])
                      \o T[" bounds.z="])}

\* the gap/overlap error about the k-th house that reports expected and its z
GapReportedAt(p, k, expected) ==
    Reported("ERROR", "2.3.6.4.3",
             SideLabel(p) \o T[" house "] \o str_int(SideHouses(p)[k]) \o T[" bounds.z="]
             \o str_float(SideZ(p, k)) \o T[" but expected "] \o str_float(expected)
             \o T[" (gap/overlap)."])

\* the gap/overlap and sum errors of the side
WalkIssues(p) ==
    {j \in 1..Len(all_issues) :
        /\ all_issues[j].requirement \in {T["2.3.6.4.3"], T["2.3.6.5"]}
        /\ StartsWith(all_issues[j].message, SideLabel(p))}

\* the side is an exact tiling of [0, 200) but for the z of its j-th house
DeviatesAt(p, j) ==
    /\ \A k \in 1..15 : Measured(p, k)
    /\ DepthSum(p, 15) = 200
    /\ SideZ(p, j) # FloatOf(DepthSum(p, j - 1))
    /\ \A k \in (1..15) \ {j} : SideZ(p, k) = FloatOf(DepthSum(p, k - 1))

\* C15 as stated: every house of a complete side gets a gap/overlap error
\* exactly when its z differs from the running value, which is reset to the
\* observed z after every difference.
C15_ErrorWheneverZDiffers ==
    Completed =>
        \A p \in {0, 1} : SideComplete(p) =>
            \A k \in 1..15 :
                GapIssues(p, k) # {}
                    <=> (~Measured(p, k) \/ SideZ(p, k) # Running(p, k, 0))

\* C15: on a complete side the walk keeps a running expected z that starts
\* at 0 and visits the houses in ascending houseNumber order, passing over a
\* house without a numeric z and an integer zsize; a house it visits gets one
\* ERROR 2.3.6.4.3 with the expected and the actual z exactly when its z is
\* more than 1e-9 away from the running value, and the running value is then
\* reset to the observed z before the zsize is added. A single house whose z
\* alone deviates from an exact tiling causes at most two gap/overlap or sum
\* errors on its side.
C15_WalkResynchronizes ==
    Completed =>
        \A p \in {0, 1} : SideComplete(p) =>
            /\ \A k \in 1..15 :
                   IF Measured(p, k) /\ ~Near(SideZ(p, k), Running(p, k, EPS), EPS)
                   THEN /\ Cardinality(GapIssues(p, k)) = 1
                        /\ GapReportedAt(p, k, Running(p, k, EPS))
                   ELSE GapIssues(p, k) = {}
            /\ \A j \in 1..15 : DeviatesAt(p, j) => Cardinality(WalkIssues(p)) <= 2

\* one house further down the street than its place in an exact tiling: it
\* and the house after it are reported, the rest of the side is not
C15_OneHouseTwoIssues ==
    /\ Completed
    /\ SideComplete(0)
    /\ \E j \in 1..14 :
           /\ DeviatesAt(0, j)
           /\ GapReportedAt(0, j, FloatOf(DepthSum(0, j - 1)))
           /\ GapReportedAt(0, j + 1, FAdd(SideZ(0, j), FloatOf(SideDepth(0, j))))
           /\ Cardinality(WalkIssues(0)) = 2

-----------------------------------------------------------------------------
(* Runs of main() over streets with houses left out or left without occupants *)

\* house n of a side whose houses all have the depth of the first: the side
\* has no gap and ends short of 200
uniform_house(n) ==
    LET k == n \div 2
    IN  moved_house(n, IF k < 10 THEN 0 ELSE 10 - k, 0, IF k < 10 THEN 0 ELSE 0 - 1)

\* the street without the houses in missing; the sides in uniform have houses
\* of one depth; the houses in idle have an empty occupants list
side_street(uniform, missing, idle) ==
    LET numbers == SelectSeq([k \in 1..30 |-> k - 1], LAMBDA n : n \notin missing)
        house(n) == IF n % 2 \in uniform THEN uniform_house(n) ELSE moved_house(n, 0, 0, 0)
    IN  JList([k \in 1..Len(numbers) |->
                  IF numbers[k] \in idle
                  THEN With(house(numbers[k]), "occupants", JList(<<>>))
                  ELSE house(numbers[k])])

SideStreets ==
    {side_street(uniform, missing, idle) :
        uniform \in SUBSET {0, 1}, missing \in SUBSET {2, 29}, idle \in {{}, {4}, {1}}}

InitSides ==
    \E street \in SideStreets :
        Start(JsonFile(char_path, JList(<<>>)), JsonFile(house_path, street))

SpecSides == InitSides /\ [][Next]_vars

SideName(p) == IF p = 0 THEN T["Even side"] ELSE T["Odd side"]

\* the zero-variance warnings of the side
VarianceWarnings(p) ==
    {j \in 1..Len(all_issues) :
        /\ all_issues[j].requirement = T["3.4"]
        /\ StartsWith(all_issues[j].message,
                      SideName(p) \o T[": all house zsize values are identical"])}

\* the sum error of the side
SumErrors(p) ==
    {j \in WalkIssues(p) : all_issues[j].requirement = T["2.3.6.5"]}

\* the depths of the measured houses of a complete side
MeasuredDepths(p) == {SideDepth(p, k) : k \in {j \in 1..15 : Measured(p, j)}}

\* C16: when a house number of a parity side is absent from houses_by_number
\* the side is not walked: it gets no gap/overlap error, no sum error and no
\* zero-variance warning. A complete side is walked whatever the other side
\* lacks: it gets the sum error exactly when its walk ends more than 1e-9 away
\* from 200 and the warning exactly when its measured houses are of one depth.
C16_IncompleteSideSkipped ==
    Completed =>
        \A p \in {0, 1} :
            IF ~SideComplete(p)
            THEN WalkIssues(p) = {} /\ VarianceWarnings(p) = {}
            ELSE /\ SumErrors(p) # {} <=> ~Near(Running(p, 16, EPS), FloatOf(200), EPS)
                 /\ VarianceWarnings(p) # {} <=> Cardinality(MeasuredDepths(p)) = 1

\* two sides of houses of one depth: the even side lacks a house and gets
\* nothing, the odd side is complete and gets its sum error and its warning
C16_OneSideSkipped ==
    /\ Completed
    /\ ~SideComplete(0)
    /\ SideComplete(1)
    /\ Has(houses_by_number, 28)
    /\ Get(BoundsOf(28), "zsize") = Get(BoundsOf(0), "zsize")
    /\ WalkIssues(0) = {}
    /\ VarianceWarnings(0) = {}
    /\ SumErrors(1) # {}
    /\ VarianceWarnings(1) # {}

-----------------------------------------------------------------------------
(* Runs of main() over short streets in which a houseNumber occurs twice *)

\* house 0 as the street first lists it: valid, or without occupants
FirstListings ==
    {household(0, IntList(<<1>>)), household(0, JList(<<>>))}

\* a later entry with a houseNumber the street has listed: house 0 again as
\* it was, with another occupant, without occupants, without a surname,
\* without bounds; house 7 again with a surname, with an occupant of its own
RepeatedEntries ==
    {household(0, IntList(<<1>>)),
     household(0, IntList(<<2>>)),
     household(0, JList(<<>>)),
     Without(household(0, IntList(<<2>>)), "surname"),
     With(household(0, IntList(<<2>>)), "bounds", None),
     With(base_house(7), "surname", JStr(base_surname(7))),
     household(7, IntList(<<1>>))}

RepeatStreets ==
    {JList(<<first, base_house(7), again>>) :
        first \in FirstListings, again \in RepeatedEntries}
    \cup {JList(<<first, again, base_house(7)>>) :
        first \in FirstListings, again \in RepeatedEntries}

InitRepeat ==
    \E street \in RepeatStreets :
        Start(JsonFile(char_path, JList(<<>>)), JsonFile(house_path, street))

SpecRepeat == InitRepeat /\ [][Next]_vars

\* the entries of the parsed street with the integer houseNumber hn
EntriesOf(hn) ==
    {k \in 1..Len(houses.v) :
        isinstance(houses.v[k], "dict") /\ Get(houses.v[k], "houseNumber") = JInt(hn)}

NumbersListed == {hn \in 0..29 : EntriesOf(hn) # {}}

FirstEntry(hn) == CHOOSE k \in EntriesOf(hn) : \A j \in EntriesOf(hn) : k <= j

\* the issues of validate_houses's loop that are about house hn
AboutHouse(issues, hn) ==
    SelectSeq(issues,
              LAMBDA i : /\ StartsWith(i.message, T["houses.json: "])
                         /\ Contains(i.message, T["house "] \o str_int(hn) \o T[" "]))

DuplicateErrors(hn) ==
    {j \in 1..Len(all_issues) :
        all_issues[j] = ERROR("2.3.1", T["houses.json: duplicate houseNumber "]
                                       \o str_int(hn) \o T["."])}

\* what the loop makes of the entry when it is the only one of the file
EntryAlone(k) ==
    house_entry([issues |-> <<>>, by_number |-> EmptyDict, seen_numbers |-> {}],
                k - 1, houses.v[k])

\* C17: an entry that repeats an integer houseNumber gets the duplicate
\* ERROR 2.3.1 and no further per-house check: the issues about a house are
\* those of the first entry with its number alone, whatever the occupants,
\* surname or bounds of the later entries, and houses_by_number holds the
\* first entry, or none when the first entry was left for its occupants.
C17_DuplicateSuppressed ==
    Completed =>
        \A hn \in NumbersListed :
            /\ Cardinality(DuplicateErrors(hn)) = Cardinality(EntriesOf(hn)) - 1
            /\ AboutHouse(all_issues, hn) = AboutHouse(EntryAlone(FirstEntry(hn)).issues, hn)
            /\ Has(houses_by_number, hn) <=> Has(EntryAlone(FirstEntry(hn)).by_number, hn)
            /\ Has(houses_by_number, hn) =>
                   houses_by_number.at[hn] = houses.v[FirstEntry(hn)]

\* a valid house followed by an entry of the same number without bounds: one
\* duplicate error, no issue about the house, the first entry kept
C17_BrokenDuplicateIgnored ==
    /\ Completed
    /\ \E hn \in NumbersListed :
           /\ Cardinality(EntriesOf(hn)) = 2
           /\ \E k \in EntriesOf(hn) :
                  /\ k # FirstEntry(hn)
                  /\ houses.v[k] # houses.v[FirstEntry(hn)]
                  /\ AboutHouse(EntryAlone(k).issues, hn) # <<>>
           /\ Cardinality(DuplicateErrors(hn)) = 1
           /\ AboutHouse(all_issues, hn) = <<>>
           /\ Has(houses_by_number, hn)
           /\ houses_by_number.at[hn] = houses.v[FirstEntry(hn)]

-----------------------------------------------------------------------------
(* Runs of main() over streets that lack houses, repeat one or hold entries  *)
(* without an integer houseNumber                                            *)

\* an entry appended to the street: house 3 again, a house numbered "5", a
\* house numbered 30, an entry that is no object
ExtraEntries ==
    {household(3, IntList(<<1>>)),
     With(household(5, IntList(<<1>>)), "houseNumber", JStr(T["5"])),
     With(household(5, IntList(<<1>>)), "houseNumber", JInt(30)),
     JInt(5)}

\* the valid street, each house but 7 with one occupant, without the houses
\* in missing; house 5 numbered 5.0 when renumbered; then the extra entries
gapped_street(missing, renumbered, extra) ==
    LET numbers == SelectSeq([k \in 1..30 |-> k - 1], LAMBDA n : n \notin missing)
        house(n) == IF n = 5 /\ renumbered
                    THEN With(moved_house(5, 0, 0, 0), "houseNumber", JFloat(5, 0))
                    ELSE moved_house(n, 0, 0, 0)
    IN  JList([k \in 1..Len(numbers) |-> house(numbers[k])] \o extra)

GappedStreets ==
    {gapped_street(missing, renumbered, extra) :
        missing \in SUBSET {0, 29}, renumbered \in BOOLEAN,
        extra \in {<<>>} \cup {<<e>> : e \in ExtraEntries}}
    \cup {JList(<<>>)}

InitGapped ==
    \E street \in GappedStreets :
        Start(JsonFile(char_path, JList(<<>>)), JsonFile(house_path, street))

SpecGapped == InitGapped /\ [][Next]_vars

\* the errors that list missing house numbers
MissingErrors ==
    {j \in 1..Len(all_issues) :
        StartsWith(all_issues[j].message, T["houses.json: missing houseNumber(s): "])}

\* the errors about the number of entries
CountErrors ==
    {j \in 1..Len(all_issues) :
        StartsWith(all_issues[j].message, T["houses.json: expected 30 houses, found "])}

\* the numbers of 0..29 that no entry has for its integer houseNumber
NumbersMissing == (0..29) \ NumbersListed

\* C18: when the entries are processed validate_houses reports the numbers
\* of 0..29 that no entry has for its houseNumber in exactly one ERROR 2.3.1
\* that lists all of them and no other, in ascending order, and reports
\* nothing of the kind when all 30 occur. A street whose length is not 30
\* gets the ERROR 'expected 30 houses, found N' as well, and its entries are
\* validated all the same: each listed number with a valid first entry is in
\* houses_by_number.
C18_MissingListedOnce ==
    (Completed /\ isinstance(houses, "list")) =>
        /\ IF NumbersMissing = {}
           THEN MissingErrors = {}
           ELSE /\ Cardinality(MissingErrors) = 1
                /\ Reported("ERROR", "2.3.1",
                            T["houses.json: missing houseNumber(s): "]
                            \o repr_ints(sorted_ints(NumbersMissing)) \o T["."])
        /\ IF Len(houses.v) = 30
           THEN CountErrors = {}
           ELSE /\ Cardinality(CountErrors) = 1
                /\ Reported("ERROR", "2.3",
                            T["houses.json: expected 30 houses, found "]
                            \o str_int(Len(houses.v)) \o T["."])
        /\ \A hn \in NumbersListed :
               Has(houses_by_number, hn) <=> Has(EntryAlone(FirstEntry(hn)).by_number, hn)

\* a street of 30 entries, two numbers of 0..29 not among them: the two are
\* listed in one error and there is no count error
C18_ThirtyEntriesTwoMissing ==
    /\ Completed
    /\ isinstance(houses, "list")
    /\ Len(houses.v) = 30
    /\ Cardinality(NumbersMissing) = 2
    /\ Cardinality(MissingErrors) = 1
    /\ CountErrors = {}
    /\ Has(houses_by_number, 3)

\* a street of 29 entries: a count error and a missing number, the entries validated
C18_ShortStreetValidated ==
    /\ Completed
    /\ isinstance(houses, "list")
    /\ Len(houses.v) = 29
    /\ Cardinality(CountErrors) = 1
    /\ Cardinality(MissingErrors) = 1
    /\ Cardinality(DOMAIN houses_by_number.at) = 29

-----------------------------------------------------------------------------
(* Runs of main() over two houses, one with its x and xsize varied *)

\* the number whole + tiny units, an int when it has no tiny part
Number(whole, tiny) == IF tiny = 0 THEN JInt(whole) ELSE JFloat(whole, tiny)

\* x at the even side's place or the odd side's, on it, within the tolerance
\* of it or beyond
XValues == {Number(whole, tiny) : whole \in {0, 40}, tiny \in Shifts}

\* xsize at 30 or at 29, likewise, or a string
XsizeValues == {Number(whole, tiny) : whole \in {29, 30}, tiny \in Shifts} \cup {JStr(T["30"])}

\* house n with one occupant and the given x and xsize
bounds_house(n, x, xsize) ==
    LET house == household(n, IntList(<<1>>))
    IN  With(house, "bounds", With(With(house.v["bounds"], "x", x), "xsize", xsize))

BoundsStreets ==
    {JList(<<bounds_house(n, x, xsize), base_house(7)>>) :
        n \in {0, 1}, x \in XValues, xsize \in XsizeValues}

InitBounds ==
    \E street \in BoundsStreets :
        Start(JsonFile(char_path, JList(<<>>)), JsonFile(house_path, street))

SpecBounds == InitBounds /\ [][Next]_vars

\* the bounds of house hn have the four keys, x, z and xsize numbers, zsize an integer
ValidBounds(hn) ==
    /\ isinstance(BoundsOf(hn), "dict")
    /\ \A k \in Range(BoundsKeys) : k \in DOMAIN BoundsOf(hn).v
    /\ is_number(Get(BoundsOf(hn), "x"))
    /\ is_number(Get(BoundsOf(hn), "z"))
    /\ is_number(Get(BoundsOf(hn), "xsize"))
    /\ is_int(Get(BoundsOf(hn), "zsize"))

\* the requirement of the side of house hn, and that of the other side
SideRequirement(hn) == IF hn % 2 = 0 THEN "2.3.6.3.1" ELSE "2.3.6.3.2"
OtherRequirement(hn) == IF hn % 2 = 0 THEN "2.3.6.3.2" ELSE "2.3.6.3.1"

\* the x the side of house hn asks for
SideX(hn) == IF hn % 2 = 0 THEN 0 ELSE 40

\* the errors citing req about the field of the bounds of house hn
BoundsErrors(hn, req, field) ==
    {j \in 1..Len(all_issues) :
        /\ all_issues[j].level = "ERROR"
        /\ all_issues[j].requirement = T[req]
        /\ StartsWith(all_issues[j].message, T["houses.json: "])
        /\ Contains(all_issues[j].message, T["house "] \o str_int(hn) \o T[" "])
        /\ Contains(all_issues[j].message, field)}

\* xsize is checked twice and x once, a value counting as off when it is more
\* than tol away from the one asked for
BoundsRule(tol) ==
    \A hn \in Range(houses_by_number.keys) :
        ValidBounds(hn) =>
            LET off == ~Near(float(Get(BoundsOf(hn), "xsize")), FloatOf(30), tol)
                aside == ~Near(float(Get(BoundsOf(hn), "x")), FloatOf(SideX(hn)), tol)
            IN  /\ Cardinality(BoundsErrors(hn, "2.3.5.2.3", T["bounds.xsize"]))
                       = IF off THEN 1 ELSE 0
                /\ Cardinality(BoundsErrors(hn, SideRequirement(hn), T["bounds.xsize"]))
                       = IF off THEN 1 ELSE 0
                /\ BoundsErrors(hn, OtherRequirement(hn), T["bounds."]) = {}
                /\ Cardinality(BoundsErrors(hn, SideRequirement(hn), T["bounds.x="]))
                       = IF aside THEN 1 ELSE 0

\* C19 as stated: a house with valid bounds gets the two xsize errors when
\* its xsize is different from 30 and neither when it equals 30; an even
\* house gets an x error iff x != 0, an odd one iff x != 40.
C19_XsizeOtherThan30 == Completed => BoundsRule(0)

\* C19: a house whose bounds have the four keys with valid types gets two
\* xsize errors when its xsize is more than 1e-9 away from 30, one under the
\* general size requirement 2.3.5.2.3 and one under the requirement of its
\* side (2.3.6.3.1 even, 2.3.6.3.2 odd), and neither otherwise; whatever its
\* xsize, an even house gets an x error under its side's requirement exactly
\* when x is more than 1e-9 away from 0, an odd house when from 40.
C19_RedundantXsizeCheck == Completed => BoundsRule(EPS)

\* an odd house at x = 40 with an xsize of 29: two xsize errors under two
\* requirements and no x error
C19_TwoErrorsTwoRequirements ==
    /\ Completed
    /\ \E hn \in Range(houses_by_number.keys) :
           /\ hn % 2 = 1
           /\ ValidBounds(hn)
           /\ Get(BoundsOf(hn), "xsize") = JInt(29)
           /\ Get(BoundsOf(hn), "x") = JInt(40)
           /\ Cardinality(BoundsErrors(hn, "2.3.5.2.3", T["bounds.xsize"])) = 1
           /\ Cardinality(BoundsErrors(hn, "2.3.6.3.2", T["bounds.xsize"])) = 1
           /\ BoundsErrors(hn, "2.3.6.3.2", T["bounds.x="]) = {}

-----------------------------------------------------------------------------
(* The scan for typographic quotes, over texts of several lines *)

\* the longest text that is not JSON
MaxLen == 3

\* x, the line feed, the right single quotation mark, the acute accent
ScanAlphabet == {120, 10, 8217, 180}

\* the texts of that alphabet, up to MaxLen characters
ScanTexts == UNION {[1..n -> ScanAlphabet] : n \in 0..MaxLen}

\* the words of x and the two marks, up to MaxLen - 1 characters
ScanWords == UNION {[1..n -> ScanAlphabet \ {10}] : n \in 0..(MaxLen - 1)}

\* what json.loads raises on a text that, after its leading whitespace, ends
\* or goes on with a character no JSON value starts with: "Expecting value"
\* at that position, whose line and column the exception derives as
\* doc.count("\n", 0, pos) + 1 and pos - doc.rindex("\n", 0, pos), or pos + 1
\* when no line feed comes before
expecting_value(text) ==
    LET blank == {32, 9, 10, 13}
        pos == Cardinality({k \in 1..Len(text) : \A j \in 1..k : text[j] \in blank})
    IN  [t |-> "JSONDecodeError",
         v |-> [lineno |-> CountNewlines(text, pos) + 1,
                colno |-> pos - RfindNewline(text, pos),
                msg |-> T["Expecting value"]]]

\* a readable file of the text, which json.loads rejects at its first character
\* that is not whitespace
TextFile(path, text) ==
    [path |-> path, status |-> "ok", error |-> <<>>, text |-> text,
     json |-> expecting_value(text)]

\* characters.json is a text that is not JSON, one string, or an array of a
\* string and an acute accent; houses.json is a street, or a text of three lines
ScanFiles ==
    {TextFile(char_path, text) : text \in ScanTexts}
    \cup {JsonFile(char_path, JStr(word)) : word \in ScanWords}
    \cup {JsonFile(char_path, JList(<<JStr(word), JStr(<<180>>)>>)) : word \in ScanWords}

ScanStreets ==
    {JsonFile(house_path, one_home), TextFile(house_path, <<8217, 10, 10, 120, 8217>>)}

InitScan == \E cf \in ScanFiles : \E hf \in ScanStreets : Start(cf, hf)

SpecScan == InitScan /\ [][Next]_vars

\* scan_for_disallowed_quotes has gone over characters.json, over houses.json
CharsScanned == char_file.status = "ok" /\ pc \notin {"load_chars", "scan_chars"}
HousesScanned ==
    /\ CharsScanned /\ house_file.status = "ok"
    /\ pc \notin {"load_houses", "scan_houses"}

\* the positions of the text, counted from 1, that hold a disallowed character
Occurrences(text) == {k \in 1..Len(text) : text[k] \in DISALLOWED_QUOTE_CHARS}

\* the n-th of them from the start of the text
Occurrence(text, n) ==
    CHOOSE k \in Occurrences(text) : Cardinality({j \in Occurrences(text) : j < k}) = n - 1

\* one more than the line feeds before position k
LineOf(text, k) == 1 + Cardinality({j \in 1..(k - 1) : text[j] = 10})

\* one more than the characters between position k and the last line feed
\* before it, or the start of the text
ColumnOf(text, k) ==
    1 + Cardinality({j \in 1..(k - 1) : \A i \in j..(k - 1) : text[i] # 10})

\* the 1.4.2 issues collected about the file, in the order collected
ScanIssues(file) ==
    SelectSeq(all_issues,
              LAMBDA i : i.requirement = T["1.4.2"] /\ StartsWith(i.message, file.path))

\* the error of the occurrence at position k of the file's text
ScanError(file, k) ==
    [level |-> "ERROR", requirement |-> T["1.4.2"],
     message |-> file.path \o T[": disallowed quote/apostrophe character '"]
                 \o <<file.text[k]>> \o T["' at line "] \o str_int(LineOf(file.text, k))
                 \o T[", col "] \o str_int(ColumnOf(file.text, k))
                 \o T[". Use ASCII ' and \" only."]]

\* the issues about the file are the errors of its occurrences, one each, in
\* the order of the text
EveryOccurrenceReported(file) ==
    /\ Len(ScanIssues(file)) = Cardinality(Occurrences(file.text))
    /\ \A n \in 1..Len(ScanIssues(file)) :
           ScanIssues(file)[n] = ScanError(file, Occurrence(file.text, n))

\* C20: once a file has been scanned, the issues hold exactly one ERROR of
\* requirement 1.4.2 for each disallowed character of its text, in the order
\* of the text, none left out after the first; each names as line one more than
\* the line feeds before the occurrence and as column one more than the
\* characters between the last line feed before it (or the start of the text)
\* and the occurrence.  Before the scan of a file there is no such issue.
C20_ScanReportsEveryOccurrence ==
    /\ IF CharsScanned THEN EveryOccurrenceReported(char_file)
                       ELSE ScanIssues(char_file) = <<>>
    /\ IF HousesScanned THEN EveryOccurrenceReported(house_file)
                        ELSE ScanIssues(house_file) = <<>>

\* characters.json has been scanned and holds three disallowed characters, two
\* on one line and one on a later line past its first column: three errors
C20_ThreeOccurrencesTwoLines ==
    /\ CharsScanned
    /\ Len(ScanIssues(char_file)) = 3
    /\ \E a, b, c \in Occurrences(char_file.text) :
           /\ a < b /\ b < c
           /\ LineOf(char_file.text, a) = LineOf(char_file.text, b)
           /\ LineOf(char_file.text, c) > LineOf(char_file.text, b)
           /\ ColumnOf(char_file.text, c) > 1
-----------------------------------------------------------------------------
(* The three relationship maps: what they hold, and who changes them *)

\* family.spouse of character 1: unmarried, character 2, an id outside the
\* roster, null
LinkSpouses == {JInt(0 - 1), JInt(2), JInt(MaxId + 1), None}

\* family.children of character 1: nobody, one or two of the roster, a child
\* outside the roster, an entry that is no integer, a child listed twice
LinkChildren ==
    {IntList(<<>>), IntList(<<2>>), IntList(<<2, 3>>), IntList(<<3, MaxId + 1>>),
     JList(<<JStr(T["x"]), JInt(2)>>), IntList(<<2, 2>>)}

\* character 1 as above; 2 is married to 1 or not and has the child 3 or none;
\* 3 is a child of 10, or an adult who may list 1 as a child; the others are
\* adults without links
LinkRosters ==
    {Roster([i \in Ids |->
               IF i = 1 THEN resident(1, JInt(40), spouse1, kids1)
               ELSE IF i = 2 THEN resident(2, JInt(40), spouse2, kids2)
               ELSE IF i = 3 THEN resident(3, third[1], JInt(0 - 1), third[2])
               ELSE resident(i, JInt(40), JInt(0 - 1), IntList(<<>>))]) :
        spouse1 \in LinkSpouses, kids1 \in LinkChildren,
        spouse2 \in {JInt(0 - 1), JInt(1)}, kids2 \in {IntList(<<>>), IntList(<<3>>)},
        third \in {<<JInt(10), IntList(<<>>)>>, <<JInt(40), IntList(<<>>)>>,
                   <<JInt(40), IntList(<<1>>)>>}}

InitLinks ==
    \E roster \in LinkRosters :
        Start(JsonFile(char_path, roster), JsonFile(house_path, one_home))

SpecLinks == InitLinks /\ [][Next]_vars

\* build_relationship_indexes has returned its maps
IndexesBuilt == pc \in {"cross_file", "report"} \/ Completed

\* the roster entry of p lists the integer c in family.children
ListsChild(p, c) ==
    /\ Has(chars_by_id, p)
    /\ LET children == Get(family_of(chars_by_id.at[p]), "children")
       IN  /\ isinstance(children, "list")
           /\ \E k \in 1..Len(children.v) : children.v[k] = JInt(c)

\* every id that is a key or a member of one of the two parent/child maps
LinkedIds ==
    Range(rel.children_of_parent.keys) \cup Range(rel.parents_of_child.keys)
    \cup UNION {rel.children_of_parent.at[p] : p \in Range(rel.children_of_parent.keys)}
    \cup UNION {rel.parents_of_child.at[c] : c \in Range(rel.parents_of_child.keys)}
    \cup Range(chars_by_id.keys)

ChildOf(p, c) == Has(rel.children_of_parent, p) /\ c \in rel.children_of_parent.at[p]
ParentOf(c, p) == Has(rel.parents_of_child, c) /\ p \in rel.parents_of_child.at[c]

\* the content of the maps once they are built
MapsConsistent ==
    IndexesBuilt =>
        /\ \A p \in LinkedIds : \A c \in LinkedIds :
               /\ ChildOf(p, c) <=> ParentOf(c, p)
               /\ ChildOf(p, c) <=> ListsChild(p, c)
        /\ Range(rel.children_of_parent.keys) \subseteq Range(chars_by_id.keys)
        /\ Range(rel.spouse_of.keys) \subseteq Range(chars_by_id.keys)
        /\ \A a \in Range(rel.spouse_of.keys) : rel.spouse_of.at[a] # 0 - 1

\* the step of validate_cross_file_consistency leaves the maps as they were
CrossFileOnlyReads ==
    pc = "cross_file" =>
        /\ rel' = rel
        /\ chars_by_id' = chars_by_id
        /\ houses_by_number' = houses_by_number

\* C21: once build_relationship_indexes has returned, c is in
\* children_of_parent[p] if and only if p is in parents_of_child[c] (and if and
\* only if p's entry lists c), every key of children_of_parent and of
\* spouse_of is an id of chars_by_id, and spouse_of holds no -1; the step of
\* validate_cross_file_consistency leaves the three maps, chars_by_id and
\* houses_by_number unchanged.
C21_MapsInverseAndUntouched == [](MapsConsistent) /\ [][CrossFileOnlyReads]_vars

\* validate_cross_file_consistency has run over a house of two or more, after
\* related_edges looked up occupants that are no key of the maps: character 1
\* is married and lists a child outside the roster, which is a key of
\* parents_of_child alone, and character 2 has no children
C21_MissingKeysLookedUp ==
    /\ CrossFileChecked
    /\ Has(rel.spouse_of, 1)
    /\ ChildOf(1, MaxId + 1) /\ ParentOf(MaxId + 1, 1)
    /\ ~Has(chars_by_id, MaxId + 1)
    /\ ~Has(rel.children_of_parent, 2)
    /\ ~Has(rel.parents_of_child, 1)
    /\ related_edges_calls(chars_by_id, houses_by_number,
                           build_house_index(houses_by_number)) # <<>>
-----------------------------------------------------------------------------
(* Which entries of the street reach houses_by_number *)

\* the occupants of an entry: none (the key is left out), a string, an empty
\* list, a list of one
OccupantValues == {None, JStr(T["x"]), JList(<<>>), IntList(<<1>>)}

\* house 0 under the houseNumber n with the occupants, or without the key
numbered(n, occupants) ==
    LET house == With(base_house(0), "houseNumber", JInt(n))
    IN  IF occupants = None
        THEN Without(house, "occupants")
        ELSE With(house, "occupants", occupants)

\* what follows the first entry of house 0: house 0 again with an occupant,
\* house 1, an entry that is no object, a house numbered "0"
SecondEntries ==
    {numbered(0, IntList(<<2>>)), numbered(1, IntList(<<2>>)), JInt(5),
     With(numbered(0, IntList(<<2>>)), "houseNumber", JStr(T["0"]))}

\* house 0 with each occupants value, a second entry, a house numbered 30 or
\* -1 with an occupant or with none, and the player's house
IndexStreets ==
    {JList(<<numbered(0, occupants), second, numbered(n, far), base_house(7)>>) :
        occupants \in OccupantValues, second \in SecondEntries,
        n \in {30, 0 - 1}, far \in {IntList(<<3>>), JList(<<>>)}}

InitIndex ==
    \E street \in IndexStreets :
        Start(JsonFile(char_path, JList(<<>>)), JsonFile(house_path, street))

SpecIndex == InitIndex /\ [][Next]_vars

\* validate_houses has returned houses_by_number
HousesIndexed ==
    pc \in {"validate_characters", "relationships", "cross_file", "report"} \/ Completed

\* the integers that entries of the parsed street have for houseNumber
IntegerNumbers ==
    {Get(houses.v[k], "houseNumber").v :
        k \in {j \in 1..Len(houses.v) :
                  isinstance(houses.v[j], "dict") /\ is_int(Get(houses.v[j], "houseNumber"))}}

\* the occupants value of the entry is a list that is not empty
HasOccupants(h) ==
    "occupants" \in DOMAIN h.v /\ h.v["occupants"].t = "list" /\ Len(h.v["occupants"].v) > 0

\* the text of the error that lists the missing numbers
MissingMessage(numbers) ==
    T["houses.json: missing houseNumber(s): "] \o repr_ints(sorted_ints(numbers)) \o T["."]

\* C22: houses_by_number, once validate_houses has returned it, holds under
\* each integer houseNumber the first entry with that number, when the
\* occupants of that entry are a list that is not empty, and nothing under a
\* number whose first entry has other occupants or none, and it has no other
\* key; a number outside 0..29 is indexed like any other.  The 2.3.1 error
\* lists the numbers of 0..29 that no entry has, so a number whose entry was
\* left out for its occupants is not among them.
C22_IndexHoldsFirstEntries ==
    HousesIndexed =>
        /\ Range(houses_by_number.keys) \subseteq IntegerNumbers
        /\ \A hn \in IntegerNumbers :
               /\ Has(houses_by_number, hn) <=> HasOccupants(houses.v[FirstEntry(hn)])
               /\ Has(houses_by_number, hn) =>
                      houses_by_number.at[hn] = houses.v[FirstEntry(hn)]
        /\ \A j \in 1..Len(all_issues) :
               StartsWith(all_issues[j].message, T["houses.json: missing houseNumber(s): "])
                   => all_issues[j].message = MissingMessage((0..29) \ IntegerNumbers)

\* the street lists house 0 without occupants and then again with one, and a
\* house 30 with an occupant: 30 is in the index, 0 is not, and the error
\* about missing numbers starts at 1
C22_SeenNotIndexed ==
    /\ HousesIndexed
    /\ Cardinality(EntriesOf(0)) = 2
    /\ ~HasOccupants(houses.v[FirstEntry(0)])
    /\ \E k \in EntriesOf(0) : HasOccupants(houses.v[k])
    /\ ~Has(houses_by_number, 0)
    /\ Has(houses_by_number, 30)
    /\ \E j \in 1..Len(all_issues) :
           StartsWith(all_issues[j].message, T["houses.json: missing houseNumber(s): [1, "])
-----------------------------------------------------------------------------
(* Every run ends: the searches over a household and the walk along a side *)

\* the ages of the family: all adults, 3 a child, 2 and 3 children
HaltAges ==
    {AllAdults,
     [i \in Ids |-> IF i = 3 THEN JInt(10) ELSE JInt(40)],
     [i \in Ids |-> IF i \in {2, 3} THEN JInt(10) ELSE JInt(40)]}

\* 1 and 2 are married to each other or not, 1 has no children or 2 and 3,
\* 2 has none or 3: spouses name each other, children of one parent are
\* siblings, so that the graph of a household has cycles
HaltRosters ==
    {family_roster(married, kids1, kids2, age) :
        married \in BOOLEAN, kids1 \in {{}, {2, 3}}, kids2 \in {{}, {3}}, age \in HaltAges}

\* the whole street, house 0 holding the roster; the houses in blank have a z
\* that is no number
family_street(blank) ==
    JList([k \in 1..30 |->
              IF k = 1 THEN household(0, IntList(sorted_ints(Ids)))
              ELSE IF k - 1 \in blank THEN unmeasured_house(k - 1)
              ELSE moved_house(k - 1, 0, 0, 0)])

\* a street of two houses, the household in roster order or with 3 twice and
\* out of order; the whole street, every z a number or not
HaltStreets ==
    {household_street(sorted_ints(Ids)), household_street(<<3, 3, 1>>),
     family_street({}), family_street({6})}

\* the family in each street; and the valid dataset with a characters.json
\* that is valid, broken or unreadable
InitHalts ==
    \/ \E roster \in HaltRosters : \E street \in HaltStreets :
           Start(JsonFile(char_path, roster), JsonFile(house_path, street))
    \/ \E cf \in FilesAt(char_path, {base_characters}) :
           Start(cf, JsonFile(house_path, base_houses))

\* the positions of main()
Labels ==
    {"load_chars", "scan_chars", "load_houses", "scan_houses", "parse_chars",
     "parse_houses", "validate_houses", "validate_characters", "relationships",
     "cross_file", "report", "done"}

\* main() goes on from its position to another one until it has exited
Step == pc # "done" /\ pc' \in Labels \ {pc}

\* main() runs statement after statement: a process that has not exited is
\* not held at its position for ever. The step of validate_cross_file_consistency
\* can be taken only when its searches have ended, which SearchesVisitOnce
\* states of every state at that position
SpecHalts == InitHalts /\ [][Next]_vars /\ WF_pc(Step)

\* the searches of validate_cross_file_consistency over the maps as built
Searches == cross_file_searches(chars_by_id, houses_by_number, rel)

\* the search ended, added no node twice, and took no more iterations than
\* the start and one for each end of an edge
VisitsOnce(s) ==
    /\ s.done
    /\ Cardinality(Range(s.visits)) = Len(s.visits)
    /\ Range(s.visits) = s.seen
    /\ s.pops <= 1 + Len(s.visits) * Len(s.visits)

SearchesVisitOnce == IndexesBuilt => \A s \in Searches : VisitsOnce(s)

\* the houses side_check's loop comes to on a complete side are the 15 houses
\* of the side, each once, in ascending order
WalkVisitsOnce ==
    HousesIndexed =>
        \A p \in {0, 1} :
            SideComplete(p) =>
                side_visits(houses_by_number, SideHouses(p), SideLabel(p)).visited
                    = SideHouses(p)

ExitStatusKnown == Exited => exit_status \in {<<0>>, <<1>>, <<2>>}

\* C23: every run of main() comes to its end, with an exit status of 0, 1 or
\* 2; each search of validate_cross_file_consistency (is_connected, the search
\* for each component, the search of a minor for an adult) ends and adds each
\* occupant to its seen set at most once, whatever cycles the household's
\* graph has; the walk of a complete side comes to each of its 15 houses
\* exactly once.
C23_EveryRunEnds ==
    /\ <>Exited
    /\ [](ExitStatusKnown)
    /\ [](SearchesVisitOnce)
    /\ [](WalkVisitsOnce)

\* a run has ended on the whole street after a search over a household of
\* three in which each is joined to both others: the search took a node off
\* its queue a second time and passed it over; the even side is complete and
\* has a house whose z is no number
C23_CycleSearchedStreetWalked ==
    /\ Completed
    /\ \E s \in Searches : Len(s.visits) >= 3 /\ s.pops > Len(s.visits)
    /\ SideComplete(0) /\ SideComplete(1)
    /\ ~Measured(0, 4)
====
